---- MODULE Spec2Model ----
(***************************************************************************)
(* HelixHeal: the iterative repair orchestrator (AgentOrchestrator.run),   *)
(* the CI monitor, the scoring step and the in-memory job registry of the  *)
(* FastAPI layer, modelled as a state machine over job ids, and the fix    *)
(* generator (FixGeneratorAgent.run) over the files of a repository.       *)
(***************************************************************************)
EXTENDS Integers, Sequences, FiniteSets, TLC

(* ------------------------------------------------------------------ *)
(* Bounds of the model                                                 *)
(* ------------------------------------------------------------------ *)
\* number of job ids (uuid4 values) the registry can hand out
NumJobs == 2
\* largest number of failure records one test run / classification yields
MaxFailures == 2
\* largest retry_limit submitted under Spec
MaxRetryLimit == 2

(* ------------------------------------------------------------------ *)
(* Program constants                                                   *)
(* ------------------------------------------------------------------ *)
RetryLimitMin == 1
RetryLimitMax == 10
SpeedLimitSeconds == 300
BaseScore == 100
FailurePenalty == 10
SpeedBonus == 10
FreeCommits == 20
CommitPenalty == 2
CIScoreCap == 50
LoopProgressStart == 15
LoopProgressSpan == 70
PushProgress == 90
FinalProgress == 100

JobIds == 1..NumJobs
\* RepoRequest.retry_limit: Field(5, ge=1, le=10)
RetryLimits == RetryLimitMin..RetryLimitMax
\* str(e) of the exception caught by the top-level guard
ExcMessages == {"", "boom"}

Max(a, b) == IF a >= b THEN a ELSE b

\* pattern.search(text) for a text given as its sequence of words and a
\* pattern given as the set of words it finds a match in
Search(pattern, text) == \E k \in 1..Len(text) : text[k] \in pattern

(* ------------------------------------------------------------------ *)
(* models.py                                                           *)
(* ------------------------------------------------------------------ *)
ScoreBreakdown == [base_score |-> 100, speed_bonus |-> 0, efficiency_penalty |-> 0,
                   ci_penalty |-> 0, final_score |-> 0]

NoSummary == [set |-> FALSE, total_failures |-> 0, total_fixes |-> 0,
              ci_status |-> "FAILED", time_taken_seconds |-> 0, iterations_used |-> 0]

NoProposals == [fixed |-> 0, skipped |-> 0, failed |-> 0]

\* RunResult(...) with the defaults of the model class; fixes is the bag of
\* proposal statuses, ci_timeline the list of CITimepoints
RunResult(status, progress, current_step) ==
    [status |-> status, progress |-> progress, current_step |-> current_step,
     error |-> "none", score |-> ScoreBreakdown, summary |-> NoSummary,
     fixes |-> NoProposals, ci_timeline |-> << >>]

\* CITimepoint: post_status "none" is Python's None
CITimepoint(iteration, status, post_status) ==
    [iteration |-> iteration, status |-> status, post_status |-> post_status]

(* ------------------------------------------------------------------ *)
(* ci_monitor.py                                                       *)
(* ------------------------------------------------------------------ *)
CIStatusOf(passed) == IF passed THEN "PASSED" ELSE "FAILED"

\* CIMonitorAgent.record without a post-fix result
record(tl, iteration, test_result) ==
    Append(tl, CITimepoint(iteration, CIStatusOf(test_result.passed), "none"))

\* a monitor that drops the timepoints that have a post-fix result
recordPost_dropped(tl, iteration, test_result, post_test_result) == tl

\* CIMonitorAgent.record with a post-fix result
recordPost(tl, iteration, test_result, post_test_result) ==
    Append(tl, CITimepoint(iteration, CIStatusOf(test_result.passed),
                           CIStatusOf(post_test_result.passed)))

\* a monitor that never signals the early stop
should_stop_never(test_result) == FALSE

should_stop(test_result) == test_result.passed

(* ------------------------------------------------------------------ *)
(* test_runner.py: TestRunnerAgent.run, by what decides passed and the *)
(* number of failure records.  exit_code is the test command's exit    *)
(* status, nparsed the records _parse_failures extracts, lint which    *)
(* lint pass reported ("clean", "ruff", "flake8") and nlint the lint   *)
(* lines _parse_lint_failures extracts from it.                        *)
(* ------------------------------------------------------------------ *)
LintTools == {"clean", "ruff", "flake8"}

\* a test runner that builds no synthetic failure when nothing was parsed
TestRunnerRun_no_synthetic(exit_code, nparsed, lint, nlint) ==
    LET passed0 == (exit_code = 0)
        ntest   == IF passed0 THEN 0 ELSE nparsed
        nl      == IF lint = "clean" THEN 0 ELSE nlint
        passed1 == IF lint = "ruff" /\ nl > 0 THEN FALSE ELSE passed0
    IN  [passed |-> passed1, nfail |-> ntest + nl]

TestRunnerRun(exit_code, nparsed, lint, nlint) ==
    LET passed0 == (exit_code = 0)
        ntest   == IF passed0 THEN 0
                   ELSE IF nparsed = 0 THEN 1 ELSE nparsed
        nl      == IF lint = "clean" THEN 0 ELSE nlint
        passed1 == IF lint = "ruff" /\ nl > 0 THEN FALSE ELSE passed0
    IN  [passed |-> passed1, nfail |-> ntest + nl]

(* ------------------------------------------------------------------ *)
(* test_runner.py in detail.  An output text is a sequence of words:   *)
(* exception names, ' ' (white space), ordinary text, and references   *)
(* 'File "<file>", line <N>'; a lint output is a sequence of lines.    *)
(* ------------------------------------------------------------------ *)
\* the 'File "...", line N' references drawn, with their file and line
ErrorLines == {"File a.py line 3", "File b.py line 7"}

RefFile(word) == IF word = "File a.py line 3" THEN "a.py" ELSE "b.py"

RefLine(word) == IF word = "File a.py line 3" THEN 3 ELSE 7

\* _classify_error
_classify_error(msg) ==
    IF Search({"IndentationError", "TabError"}, msg) THEN "INDENTATION"
    ELSE IF Search({"SyntaxError"}, msg) THEN "SYNTAX"
    ELSE IF Search({"ImportError", "ModuleNotFoundError"}, msg) THEN "IMPORT"
    ELSE IF Search({"TypeError"}, msg) THEN "TYPE_ERROR"
    ELSE IF Search({"NameError"}, msg) \/ Search({"AttributeError"}, msg) THEN "LOGIC"
    ELSE "UNKNOWN"

\* a search that returns the last reference of the text
ERROR_LINE_RE_search_last(text) ==
    IF Search(ErrorLines, text)
    THEN text[CHOOSE k \in 1..Len(text) :
                 /\ text[k] \in ErrorLines
                 /\ \A h \in (k + 1)..Len(text) : text[h] \notin ErrorLines]
    ELSE "no match"

\* _ERROR_LINE_RE.search(text): the first reference, or "no match"
RECURSIVE ERROR_LINE_RE_search(_)
ERROR_LINE_RE_search(text) ==
    IF text = << >> THEN "no match"
    ELSE IF Head(text) \in ErrorLines THEN Head(text)
    ELSE ERROR_LINE_RE_search(Tail(text))

\* str.strip() of an output text
RECURSIVE StripText(_)
StripText(text) ==
    IF text = << >> THEN text
    ELSE IF Head(text) = " " THEN StripText(Tail(text))
    ELSE IF text[Len(text)] = " " THEN StripText(SubSeq(text, 1, Len(text) - 1))
    ELSE text

\* TestFailure(...).model_dump(); line 0 is None, origin tells which code
\* built the record
TestFailure(file, line, bug_type, origin) ==
    [file |-> file, line |-> line, bug_type |-> bug_type, origin |-> origin]

\* the failure built from a raw text when nothing structured was parsed
SyntheticFailure(raw) ==
    LET line_match == ERROR_LINE_RE_search(raw) IN
    TestFailure(IF line_match # "no match" THEN RefFile(line_match) ELSE "unknown",
                IF line_match # "no match" THEN RefLine(line_match) ELSE 0,
                _classify_error(raw), "synthetic")

\* _parse_failures: nparsed records come out of its loop over the lines
_parse_failures(nparsed, stderr) ==
    IF nparsed > 0
    THEN [k \in 1..nparsed |-> TestFailure("test_x.py", 0, "UNKNOWN", "parsed")]
    ELSE IF stderr # << >> THEN << SyntheticFailure(stderr) >>
    ELSE << >>

\* the lines _LINT_LINE_RE matches
LintLines == {"a.py:1:1: F401 unused import"}

\* _parse_lint_failures
RECURSIVE _parse_lint_failures(_)
_parse_lint_failures(output) ==
    IF output = << >> THEN << >>
    ELSE (IF Head(output) \in LintLines
          THEN << TestFailure("a.py", 1, "LINTING", "lint") >> ELSE << >>)
         \o _parse_lint_failures(Tail(output))

\* lint_out.strip() is not empty
NotBlank(output) == StripText(output) # << >>

\* TestRunnerAgent.run, from what the three commands return
TestRunnerAgent_run(exit_code, nparsed, stdout, stderr, lint_exit, lint_out, flake_exit, flake_out) ==
    LET passed0   == (exit_code = 0)
        parsed    == IF passed0 THEN << >> ELSE _parse_failures(nparsed, stderr)
        raw       == StripText(IF stderr # << >> THEN stderr
                               ELSE IF stdout # << >> THEN stdout
                               ELSE <<"Unknown test error">>)
        tests     == IF ~passed0 /\ parsed = << >>
                     THEN << SyntheticFailure(raw) >> ELSE parsed
        ruff      == IF lint_exit # 0 /\ NotBlank(lint_out)
                     THEN _parse_lint_failures(lint_out) ELSE << >>
        flipped   == ruff # << >> /\ passed0
        flake     == IF /\ lint_exit # 0 /\ ~NotBlank(lint_out)
                        /\ flake_exit # 0 /\ NotBlank(flake_out)
                     THEN _parse_lint_failures(flake_out) ELSE << >>
    IN  [passed |-> IF flipped THEN FALSE ELSE passed0,
         exit_code |-> IF flipped THEN lint_exit ELSE exit_code,
         failures |-> tests \o ruff \o flake]

\* the results a test execution can return with at most maxf failure records
TestResults(maxf) ==
    { r \in { TestRunnerRun(e, np, l, nl) :
                e \in 0..1, np \in 0..maxf, l \in LintTools, nl \in 0..maxf } :
        r.nfail <= maxf }

NoResult == [passed |-> FALSE, nfail |-> 0]

(* ------------------------------------------------------------------ *)
(* utils.py: run_in_sandbox.  The command completed (with a return     *)
(* code and its two output texts), ran into the timeout, or could not  *)
(* be started or read (stderr then stands for str(e)).                 *)
(* ------------------------------------------------------------------ *)
SandboxOutcomes == {"completed", "timeout", "error"}

TimeoutText == <<"Command timed out after {timeout} seconds">>

\* a sandbox that reports a timed-out command as a success
run_in_sandbox_timeout_exits_zero(outcome, returncode, stdout, stderr) ==
    CASE outcome = "completed" -> [exit_code |-> returncode, stdout |-> stdout,
                                   stderr |-> stderr]
      [] outcome = "timeout"   -> [exit_code |-> 0, stdout |-> << >>, stderr |-> TimeoutText]
      [] outcome = "error"     -> [exit_code |-> 1, stdout |-> << >>, stderr |-> stderr]

run_in_sandbox(outcome, returncode, stdout, stderr) ==
    CASE outcome = "completed" -> [exit_code |-> returncode, stdout |-> stdout,
                                   stderr |-> stderr]
      [] outcome = "timeout"   -> [exit_code |-> 1, stdout |-> << >>, stderr |-> TimeoutText]
      [] outcome = "error"     -> [exit_code |-> 1, stdout |-> << >>, stderr |-> stderr]

\* the results a test execution can return, with at most maxf failure
\* records, when its test command ends in the given way; nothing is parsed
\* out of the text of a timeout
SandboxResults(maxf, outcome) ==
    { r \in { TestRunnerRun(run_in_sandbox(outcome, e, << >>, << >>).exit_code, np, l, nl) :
                e \in 0..1, np \in (IF outcome = "timeout" THEN {0} ELSE 0..maxf),
                l \in LintTools, nl \in 0..maxf } :
        r.nfail <= maxf }

(* ------------------------------------------------------------------ *)
(* bug_classifier.py: BugClassifierAgent.run returns one record per    *)
(* failure plus one per lint-style line found in the test output.      *)
(* ------------------------------------------------------------------ *)
ClassifierRun(test_result, nlintlines) == test_result.nfail + nlintlines

(* ------------------------------------------------------------------ *)
(* bug_classifier.py: _classify.  A diagnostic text is a sequence of   *)
(* words; a pattern is the set of words its regular expression finds a *)
(* match in ("E501", "W291" and "F401" stand for the lint codes).      *)
(* ------------------------------------------------------------------ *)
\* the table with the Syntax rule ahead of the Indentation rule
PATTERNS_syntax_first ==
    << <<"SYNTAX", {"SyntaxError", "invalid syntax", "EOF while parsing"}>>,
       <<"INDENTATION", {"IndentationError", "TabError", "unexpected indent", "unindent"}>>,
       <<"IMPORT", {"ImportError", "ModuleNotFoundError", "cannot import name"}>>,
       <<"TYPE_ERROR", {"TypeError", "takes 1 positional argument"}>>,
       <<"LOGIC", {"AssertionError", "NameError", "AttributeError", "ValueError",
                   "KeyError", "IndexError"}>>,
       <<"LINTING", {"flake8", "ruff", "E501", "W291", "F401", "undefined name",
                     "unused import"}>> >>

PATTERNS ==
    << <<"INDENTATION", {"IndentationError", "TabError", "unexpected indent", "unindent"}>>,
       <<"SYNTAX", {"SyntaxError", "invalid syntax", "EOF while parsing"}>>,
       <<"IMPORT", {"ImportError", "ModuleNotFoundError", "cannot import name"}>>,
       <<"TYPE_ERROR", {"TypeError", "takes 1 positional argument"}>>,
       <<"LOGIC", {"AssertionError", "NameError", "AttributeError", "ValueError",
                   "KeyError", "IndexError"}>>,
       <<"LINTING", {"flake8", "ruff", "E501", "W291", "F401", "undefined name",
                     "unused import"}>> >>

\* the for loop of _classify over the rest of the table
RECURSIVE ClassifyFrom(_, _)
ClassifyFrom(patterns, text) ==
    IF patterns = << >> THEN "UNKNOWN"
    ELSE IF Search(Head(patterns)[2], text) THEN Head(patterns)[1]
    ELSE ClassifyFrom(Tail(patterns), text)

_classify(text) == ClassifyFrom(PATTERNS, text)

(* ------------------------------------------------------------------ *)
(* fix_generator.py as seen by the orchestrator: a bag of proposal     *)
(* statuses, at most one proposal per classified failure.              *)
(* ------------------------------------------------------------------ *)
ProposalBags(nclassified) ==
    { b \in [fixed : 0..nclassified, skipped : 0..nclassified, failed : 0..nclassified] :
        b.fixed + b.skipped + b.failed <= nclassified }

AddProposals(a, b) ==
    [fixed |-> a.fixed + b.fixed, skipped |-> a.skipped + b.skipped,
     failed |-> a.failed + b.failed]

(* ------------------------------------------------------------------ *)
(* fix_generator.py on its own: file contents are sequences of         *)
(* characters, "t" a tab, "s" a space, "n" a newline, "i" the text of  *)
(* an import of the module the error message names, "#" a hash and "x" *)
(* any other text.                                                     *)
(* ------------------------------------------------------------------ *)
Whitespace == {"t", "s", "n"}

\* Python's None, where a string is expected
None == <<"None">>

\* str.lstrip()
RECURSIVE LStrip(_)
LStrip(c) ==
    IF c = << >> THEN c
    ELSE IF Head(c) \in Whitespace THEN LStrip(Tail(c)) ELSE c

\* str.rstrip()
RECURSIVE RStrip(_)
RStrip(c) ==
    IF c = << >> THEN c
    ELSE IF c[Len(c)] \in Whitespace THEN RStrip(SubSeq(c, 1, Len(c) - 1)) ELSE c

\* str.strip()
Strip(c) == RStrip(LStrip(c))

\* str.splitlines(keepends=True), cur being the line collected so far
RECURSIVE SplitFrom(_, _)
SplitFrom(c, cur) ==
    IF c = << >> THEN (IF cur = << >> THEN << >> ELSE << cur >>)
    ELSE IF Head(c) = "n" THEN << Append(cur, "n") >> \o SplitFrom(Tail(c), << >>)
    ELSE SplitFrom(Tail(c), Append(cur, Head(c)))

SplitLines(c) == SplitFrom(c, << >>)

\* "".join(lines)
RECURSIVE Join(_)
Join(lines) == IF lines = << >> THEN << >> ELSE Head(lines) \o Join(Tail(lines))

\* content.replace("\t", "    ", 1): only the first tab is replaced
ReplaceTabs_first_only(c) ==
    IF \E k \in 1..Len(c) : c[k] = "t"
    THEN LET k == CHOOSE i \in 1..Len(c) : c[i] = "t" /\ \A h \in 1..(i - 1) : c[h] # "t"
         IN  SubSeq(c, 1, k - 1) \o <<"s", "s", "s", "s">> \o SubSeq(c, k + 1, Len(c))
    ELSE c

\* content.replace("\t", "    ")
RECURSIVE ReplaceTabs(_)
ReplaceTabs(c) ==
    IF c = << >> THEN << >>
    ELSE (IF Head(c) = "t" THEN <<"s", "s", "s", "s">> ELSE << Head(c) >>)
         \o ReplaceTabs(Tail(c))

\* f"# <MARK>: {line.rstrip()}  # <why>\n", the line the heuristics put in
\* the place of a line they comment out
CommentOut(line) ==
    <<"#", "s", "x", "s">> \o RStrip(line) \o <<"s", "s", "#", "s", "x", "n">>

\* the line mentions the import of the module and is not a comment
IsLiveImport(line) ==
    LET stripped == Strip(line) IN
    /\ \E k \in 1..Len(stripped) : stripped[k] = "i"
    /\ ~(stripped # << >> /\ stripped[1] = "#")

BugTypes == {"LINTING", "SYNTAX", "LOGIC", "TYPE_ERROR", "IMPORT", "INDENTATION", "UNKNOWN"}

\* an error message by what the heuristics look for in it: import_error, it
\* contains "ModuleNotFoundError" or "ImportError"; no_module, it contains
\* "No module named '<module>'"; line, the N of its first "line N" (0: no
\* such text); unused, it contains "unused" in any case
Message(import_error, no_module, line, unused) ==
    [import_error |-> import_error, no_module |-> no_module, line |-> line,
     unused |-> unused]

\* _heuristic_fix on a readable file of the given content
heuristic_fix(content, bug_type, error_message) ==
    LET lines == SplitLines(content) IN
    IF /\ bug_type = "IMPORT" \/ error_message.import_error
       /\ error_message.no_module
    THEN Join([k \in 1..Len(lines) |->
                 IF IsLiveImport(lines[k]) THEN CommentOut(lines[k]) ELSE lines[k]])
    ELSE IF bug_type = "INDENTATION"
    THEN ReplaceTabs(content)
    ELSE IF /\ bug_type = "SYNTAX"
            /\ error_message.line \in 1..Len(lines)
    THEN Join([lines EXCEPT ![error_message.line] = CommentOut(@)])
    ELSE IF /\ bug_type = "LINTING"
            /\ error_message.unused
            /\ error_message.line \in 1..Len(lines)
    THEN Join([lines EXCEPT ![error_message.line] = CommentOut(@)])
    ELSE None

\* FixGeneratorAgent._fix_with_llm: agent tells whether self._agent is set,
\* reply is the text the model returned with its fences removed, or None
\* when the call raised
fix_with_llm(agent, reply) ==
    IF ~agent THEN None
    ELSE IF reply = None THEN None
    ELSE Strip(reply) \o <<"n">>

\* Python's truth value of an Optional[str]
Truthy(c) == c # None /\ c # << >>

\* write_file_safe: the file after a write that succeeded ("ok"), that
\* failed before the file was opened ("unopened") or after it was
\* truncated ("truncated")
WriteOutcomes == {"ok", "unopened", "truncated"}

write_file_safe(old, content, outcome) ==
    CASE outcome = "ok"        -> content
      [] outcome = "unopened"  -> old
      [] outcome = "truncated" -> << >>

(* ------------------------------------------------------------------ *)
(* orchestrator.py: progress percentages and the score                 *)
(* ------------------------------------------------------------------ *)
\* pct_base = 15 + int((iteration - 1) * (70 / retry_limit)); the float
\* product truncates to the integer quotient for every retry_limit <= 10
PctBase(iteration, retry_limit) ==
    LoopProgressStart + ((iteration - 1) * LoopProgressSpan) \div retry_limit

\* a scoring step that caps the score whatever the final CI status
ComputeScore_always_capped(total_failures_initial, total_fixes_applied, elapsed, ci_status_final) ==
    LET speed_bonus        == IF elapsed < SpeedLimitSeconds THEN SpeedBonus ELSE 0
        excess_commits     == Max(0, total_fixes_applied - FreeCommits)
        efficiency_penalty == excess_commits * CommitPenalty
        remaining_failures == total_failures_initial - total_fixes_applied
        base               == BaseScore - (remaining_failures * FailurePenalty)
        raw_score          == Max(0, base + speed_bonus - efficiency_penalty)
        ci_penalty         == IF raw_score > CIScoreCap
                              THEN raw_score - CIScoreCap ELSE 0
    IN  [base_score |-> base, speed_bonus |-> speed_bonus,
         efficiency_penalty |-> efficiency_penalty, ci_penalty |-> ci_penalty,
         final_score |-> raw_score - ci_penalty, raw_score |-> raw_score]

ComputeScore(total_failures_initial, total_fixes_applied, elapsed, ci_status_final) ==
    LET speed_bonus        == IF elapsed < SpeedLimitSeconds THEN SpeedBonus ELSE 0
        excess_commits     == Max(0, total_fixes_applied - FreeCommits)
        efficiency_penalty == excess_commits * CommitPenalty
        remaining_failures == total_failures_initial - total_fixes_applied
        base               == BaseScore - (remaining_failures * FailurePenalty)
        raw_score          == Max(0, base + speed_bonus - efficiency_penalty)
        ci_penalty         == IF ci_status_final # "PASSED" /\ raw_score > CIScoreCap
                              THEN raw_score - CIScoreCap ELSE 0
    IN  [base_score |-> base, speed_bonus |-> speed_bonus,
         efficiency_penalty |-> efficiency_penalty, ci_penalty |-> ci_penalty,
         final_score |-> raw_score - ci_penalty, raw_score |-> raw_score]

(* ------------------------------------------------------------------ *)
(* State                                                               *)
(* ------------------------------------------------------------------ *)
VARIABLES
    jobs,       \* main._jobs: job id -> RunResult, defined on the submitted ids
    pc,         \* per job id: position of its background task
    request,    \* per job id: retry_limit and whether a github_token was given
    result,     \* per job id: the RunResult object built by AgentOrchestrator.run
    locals,     \* per job id: the local variables of AgentOrchestrator.run
    timeline,   \* per job id: CIMonitorAgent.timeline of the job's orchestrator
    sink,       \* per job id: step label on_progress has still to store, or NoStep
    trace,      \* per job id: history of the run (not read by the program)
    scoring,    \* ScoreSpec: the inputs of one score computation and its outcome
    disk,       \* FixSpec: the files of the cloned repository, path -> content
    fixgen,     \* FixSpec: one call of FixGeneratorAgent.run, its agent and locals
    fixlog,     \* FixSpec: history of the call and of the last failure it went through
    fixin,      \* FallbackSpec: what the last failure gone through asked for
    classifier, \* ClassifySpec: one failure handed to BugClassifierAgent.run
    runner      \* TestSpec: one call of TestRunnerAgent.run, its inputs and result

runVars == <<jobs, pc, request, result, locals, timeline, sink, trace>>

\* the variables AgentOrchestrator.run and the registry do not touch
fixVars == <<disk, fixgen, fixlog, fixin>>

unitVars == <<classifier, runner>>

notRun == <<scoring, fixVars, unitVars>>

vars == <<runVars, notRun>>

NoStep == "-"

NoScoring == [pc |-> "off", total_failures_initial |-> 0, total_fixes_applied |-> 0,
              elapsed |-> 0, ci_status_final |-> "FAILED",
              score |-> ScoreBreakdown, raw_score |-> 0]

\* the paths classified failures can name: two files of the repository and
\* the path of a file that is not there
Files == {"a.py", "b.py"}
MissingFile == "unknown"

\* a second spelling of the path of a.py, as flake8 run on '.' prints it
DottedFile == "./a.py"

\* the file a path names: the file system resolves the '.' component
RealFile(path) == IF path = DottedFile THEN "a.py" ELSE path

\* os.path.join(real_repo, raw_file): the path keeps the spelling of the
\* failure record (paths are written relative to the repository)
os_path_join(raw_file) == raw_file

\* os.path.relpath(abs_file, real_repo): the normalised relative path
os_path_relpath(abs_file) == RealFile(abs_file)

NoDisk == [f \in Files |-> << >>]

\* pc: "off", "loop" (in the for loop) or "returned"; agent: self._agent is
\* set; idx: failures of the list gone through; seen_files, proposals: the
\* locals of run, a proposal kept as its file and status
NoFixGen == [pc |-> "off", agent |-> FALSE, idx |-> 0, seen_files |-> {},
             proposals |-> << >>]

\* attempted: the failure got past the two skip tests; original: the file's
\* content when read (None: unreadable); candidate: fixed_content after both strategies;
\* status: of the proposal appended ("none": no proposal); before: the files
\* as they were when the loop body was entered; disk0: the files as they were
\* when run was called; calls: calls of run so far; prev: file, candidate
\* and status of the last failure of the call before
NoPrev == [file |-> MissingFile, candidate |-> None, status |-> "none"]

\* bug_type, error_message: of the failure; reply: the model's answer to it
NoFixIn == [bug_type |-> "UNKNOWN", error_message |-> Message(FALSE, FALSE, 0, FALSE),
            reply |-> None]

NoFixLog == [attempted |-> FALSE, file |-> MissingFile, original |-> << >>,
             candidate |-> None, status |-> "none", before |-> NoDisk,
             disk0 |-> NoDisk, calls |-> 0, prev |-> NoPrev]

\* pc: "off", "call" or "done"; error_message, raw_output: the two texts of
\* the failure (raw_output may be None); bug_type: the category given
NoClassifier == [pc |-> "off", error_message |-> << >>, raw_output |-> None,
                 bug_type |-> "UNKNOWN"]

\* pc: "off", "call" or "done"; exit_code, stdout, stderr: what the test
\* command returned; nparsed: the records the loop of _parse_failures gets
\* out of them; lint_*, flake_*: what ruff and flake8 returned; result: the
\* dict run returns
NoRunner == [pc |-> "off", exit_code |-> 0, nparsed |-> 0, stdout |-> << >>,
             stderr |-> << >>, lint_exit |-> 0, lint_out |-> << >>,
             flake_exit |-> 0, flake_out |-> << >>,
             result |-> [passed |-> FALSE, exit_code |-> 1, failures |-> << >>]]

NoRequest == [retry_limit |-> RetryLimitMin, github_token |-> FALSE]

InitLocals ==
    [iteration |-> 0, test_result |-> NoResult, classified |-> 0, fixed |-> 0,
     all_proposals |-> NoProposals, total_failures_initial |-> 0,
     total_fixes_applied |-> 0, ci_status_final |-> "FAILED",
     elapsed |-> 0]

\* raised, exc: an exception reached the top-level guard of run, and its str();
\* raised_at: the position of the phase that raised it ("none": none did);
\* stop, stop_iter: why and in which iteration the for loop ended ("passed":
\* early stop, "unclassified", "nofix", "green": post-fix run passed,
\* "exhausted": range ran out; "none": it has not ended);
\* final: outcome of the test run of the loop's else clause ("none": not run);
\* sandbox_iter: the last iteration whose pre-fix test command timed out
\* or could not be started (0: none);
\* last_pct: the last percentage handed to the progress sink (-1: none yet);
\* raw_score: the value of run's local raw_score when the score was computed;
\* first_passed: the pre-fix test run of iteration 1 reported passed;
\* tests, classifications, fix_runs, commit_runs: calls of test_runner.run,
\* bug_classifier.run, fix_generator.run and commit_agent.run so far;
\* commits: commits made in the repository so far;
\* last_test: what the last test execution reported ("none": none was run);
\* pushes: calls of push_changes so far; push_failed: one of them returned
\* False; tested_after_push: test_runner.run was called after one of them
InitTrace == [raised |-> FALSE, exc |-> "none", raised_at |-> "none",
              stop |-> "none", stop_iter |-> 0, final |-> "none",
              sandbox_iter |-> 0, last_pct |-> -1, raw_score |-> 0,
              first_passed |-> FALSE, tests |-> 0, classifications |-> 0,
              fix_runs |-> 0, commit_runs |-> 0, commits |-> 0,
              last_test |-> "none", pushes |-> 0,
              push_failed |-> FALSE, tested_after_push |-> FALSE]

Init ==
    /\ jobs = << >>
    /\ pc = [j \in JobIds |-> "idle"]
    /\ request = [j \in JobIds |-> NoRequest]
    /\ result = [j \in JobIds |-> RunResult("RUNNING", 0, "Initializing...")]
    /\ locals = [j \in JobIds |-> InitLocals]
    /\ timeline = [j \in JobIds |-> << >>]
    /\ sink = [j \in JobIds |-> NoStep]
    /\ trace = [j \in JobIds |-> InitTrace]
    /\ scoring = NoScoring
    /\ disk = NoDisk
    /\ fixgen = NoFixGen
    /\ fixlog = NoFixLog
    /\ fixin = NoFixIn
    /\ classifier = NoClassifier
    /\ runner = NoRunner

\* positions inside the try block of AgentOrchestrator.run
TryPcs == {"clone", "checkout", "analyze", "pretest", "earlystop", "classify", "fix",
           "commit", "posttest", "green", "finaltest", "push", "score", "finish"}

\* positions whose phase opens with a call of _progress
ReportingPcs == TryPcs \ {"finaltest", "score"}

\* the (percentage, label) the phase at position p passes to _progress
PhaseReport(p, iteration, retry_limit) ==
    LET pct_base == PctBase(iteration, retry_limit) IN
    CASE p = "clone"     -> [pct |-> 5, step |-> "Cloning repository..."]
      [] p = "checkout"  -> [pct |-> 10, step |-> "Creating branch..."]
      [] p = "analyze"   -> [pct |-> 15, step |-> "Analyzing repository structure..."]
      [] p = "pretest"   -> [pct |-> pct_base, step |-> "Running tests..."]
      [] p = "earlystop" -> [pct |-> pct_base + 5, step |-> "All tests passed!"]
      [] p = "classify"  -> [pct |-> pct_base + 2, step |-> "Classifying failures..."]
      [] p = "fix"       -> [pct |-> pct_base + 4, step |-> "Generating fixes with AI..."]
      [] p = "commit"    -> [pct |-> pct_base + 6, step |-> "Committing fix(es)..."]
      [] p = "posttest"  -> [pct |-> pct_base + 8, step |-> "Verifying fixes..."]
      [] p = "green"     -> [pct |-> pct_base + 10, step |-> "Tests passing!"]
      [] p = "push"      -> [pct |-> PushProgress, step |-> "Pushing branch to remote..."]
      [] p = "finish"    -> [pct |-> FinalProgress, step |-> "Done!"]

\* a progress sink that marks the job completed when it is told 100 percent
on_progress_marks_completed(js, j, pct) ==
    IF j \in DOMAIN js
    THEN [js EXCEPT ![j].progress = pct,
                    ![j].status = IF pct = FinalProgress THEN "COMPLETED" ELSE @]
    ELSE js

\* main._run_orchestrator.on_progress, first assignment (the second one,
\* of current_step, is the step OnProgressStep)
on_progress(js, j, pct) ==
    IF j \in DOMAIN js THEN [js EXCEPT ![j].progress = pct] ELSE js

\* _progress(pct, step) of the phase job j is about to run: writes the
\* result object, then calls the sink
Progress(j) ==
    LET rp == PhaseReport(pc[j], locals[j].iteration, request[j].retry_limit) IN
    /\ result' = [result EXCEPT ![j].progress = rp.pct, ![j].current_step = rp.step]
    /\ jobs' = on_progress(jobs, j, rp.pct)
    /\ sink' = [sink EXCEPT ![j] = IF j \in DOMAIN jobs THEN rp.step ELSE NoStep]

\* the history after the report of the phase at job j's position
Reported(j) ==
    [trace[j] EXCEPT !.last_pct =
        PhaseReport(pc[j], locals[j].iteration, request[j].retry_limit).pct]

Traced(j, t) == trace' = [trace EXCEPT ![j] = t]

\* job j's task is at position p and not inside on_progress
At(j, p) == pc[j] = p /\ sink[j] = NoStep

Goto(j, p) == pc' = [pc EXCEPT ![j] = p]

\* return result: the locals of run and the job's orchestrator (with its
\* CI monitor) go out of scope
Return(j) ==
    /\ Goto(j, "returned")
    /\ locals' = [locals EXCEPT ![j] = InitLocals]
    /\ timeline' = [timeline EXCEPT ![j] = << >>]

(* ------------------------------------------------------------------ *)
(* main.py                                                             *)
(* ------------------------------------------------------------------ *)
\* POST /run-agent: a fresh id, the initial registry entry, the queued task
run_agent(j, retry_limit, github_token) ==
    /\ pc[j] = "idle"
    /\ j \notin DOMAIN jobs
    /\ jobs' = (j :> RunResult("RUNNING", 0, "Queued...")) @@ jobs
    /\ request' = [request EXCEPT ![j] =
                     [retry_limit |-> retry_limit, github_token |-> github_token]]
    /\ Goto(j, "queued")
    /\ UNCHANGED <<result, locals, timeline, sink, trace>>
    /\ UNCHANGED notRun

\* uuid.uuid4(): an id no job has had; which of the unused ones is immaterial
FreshId == CHOOSE j \in JobIds : j \notin DOMAIN jobs /\ \A k \in JobIds \ DOMAIN jobs : j <= k

\* the answer of GET /status/{job_id}
get_status(j) == IF j \in DOMAIN jobs THEN jobs[j].status ELSE "404"

\* second assignment of on_progress: _jobs[job_id].current_step = step
OnProgressStep(j) ==
    /\ sink[j] # NoStep
    /\ jobs' = [jobs EXCEPT ![j].current_step = sink[j]]
    /\ sink' = [sink EXCEPT ![j] = NoStep]
    /\ UNCHANGED <<pc, request, result, locals, timeline, trace>>
    /\ UNCHANGED notRun

\* _run_orchestrator up to the try block of run: the orchestrator and its
\* CI monitor are constructed, result is created
StartRun(j) ==
    /\ At(j, "queued")
    /\ result' = [result EXCEPT ![j] = RunResult("RUNNING", 0, "Initializing...")]
    /\ timeline' = [timeline EXCEPT ![j] = << >>]
    /\ Goto(j, "clone")
    /\ UNCHANGED <<jobs, request, locals, sink, trace>>
    /\ UNCHANGED notRun

\* a background task that drops the result instead of storing it
StoreResult_lost(j) ==
    /\ At(j, "returned")
    /\ Goto(j, "stored")
    /\ UNCHANGED <<jobs, request, result, locals, timeline, sink, trace>>
    /\ UNCHANGED notRun

\* a background task that removes the entry of its job once it is done
StoreResult_evicts(j) ==
    /\ At(j, "returned")
    /\ jobs' = [k \in DOMAIN jobs \ {j} |-> jobs[k]]
    /\ Goto(j, "stored")
    /\ UNCHANGED <<request, result, locals, timeline, sink, trace>>
    /\ UNCHANGED notRun

\* _jobs[job_id] = result; _save_results
StoreResult(j) ==
    /\ At(j, "returned")
    /\ jobs' = (j :> result[j]) @@ jobs
    /\ Goto(j, "stored")
    /\ UNCHANGED <<request, result, locals, timeline, sink, trace>>
    /\ UNCHANGED notRun

(* ------------------------------------------------------------------ *)
(* orchestrator.py: AgentOrchestrator.run, one action per phase        *)
(* ------------------------------------------------------------------ *)
Clone(j) ==
    /\ At(j, "clone")
    /\ Progress(j)
    /\ Traced(j, Reported(j))
    /\ Goto(j, "checkout")
    /\ UNCHANGED <<request, locals, timeline>>
    /\ UNCHANGED notRun

Checkout(j) ==
    /\ At(j, "checkout")
    /\ Progress(j)
    /\ Traced(j, Reported(j))
    /\ Goto(j, "analyze")
    /\ UNCHANGED <<request, locals, timeline>>
    /\ UNCHANGED notRun

\* an orchestrator whose CI monitor is one object shared by all jobs:
\* ci_monitor.reset() empties the timeline of every job
Analyze_shared_monitor(j) ==
    /\ At(j, "analyze")
    /\ Progress(j)
    /\ Traced(j, Reported(j))
    /\ locals' = [locals EXCEPT ![j] = [InitLocals EXCEPT !.iteration = 1]]
    /\ timeline' = [k \in JobIds |-> << >>]
    /\ Goto(j, "pretest")
    /\ UNCHANGED request
    /\ UNCHANGED notRun

\* repo analysis, the loop's accumulators, ci_monitor.reset(), and entry
\* into the first iteration of range(1, retry_limit + 1)
Analyze(j) ==
    /\ At(j, "analyze")
    /\ Progress(j)
    /\ Traced(j, Reported(j))
    /\ locals' = [locals EXCEPT ![j] = [InitLocals EXCEPT !.iteration = 1]]
    /\ timeline' = [timeline EXCEPT ![j] = << >>]
    /\ Goto(j, "pretest")
    /\ UNCHANGED request
    /\ UNCHANGED notRun

\* pre-fix test run of the iteration; outcome is how the sandbox ended the
\* test command
RunTests(j, test_result, outcome) ==
    /\ At(j, "pretest")
    /\ Progress(j)
    /\ Traced(j, [Reported(j) EXCEPT
                    !.tests = @ + 1,
                    !.last_test = IF test_result.passed THEN "passed" ELSE "failed",
                    !.tested_after_push = (trace[j].pushes > 0),
                    !.sandbox_iter = IF outcome # "completed"
                                     THEN locals[j].iteration ELSE @,
                    !.first_passed = IF locals[j].iteration = 1
                                     THEN test_result.passed ELSE @])
    /\ locals' = [locals EXCEPT
                    ![j].test_result = test_result,
                    ![j].total_failures_initial =
                        IF locals[j].iteration = 1 THEN test_result.nfail ELSE @]
    /\ Goto(j, IF should_stop(test_result) THEN "earlystop" ELSE "classify")
    /\ UNCHANGED <<request, timeline>>
    /\ UNCHANGED notRun

\* early exit: the pre-fix run passed
EarlyStop(j) ==
    /\ At(j, "earlystop")
    /\ timeline' = [timeline EXCEPT
                      ![j] = record(@, locals[j].iteration, locals[j].test_result)]
    /\ locals' = [locals EXCEPT ![j].ci_status_final = "PASSED"]
    /\ Progress(j)
    /\ Traced(j, [Reported(j) EXCEPT !.stop = "passed",
                                     !.stop_iter = locals[j].iteration])
    /\ Goto(j, "push")
    /\ UNCHANGED request
    /\ UNCHANGED notRun

\* the failure records are not read again once classified (a timepoint's
\* failure messages are not part of the model)
Classify(j, nlintlines) ==
    /\ At(j, "classify")
    /\ Progress(j)
    /\ LET classified == ClassifierRun(locals[j].test_result, nlintlines) IN
       /\ Traced(j, [Reported(j) EXCEPT
                       !.classifications = @ + 1,
                       !.stop = IF classified = 0 THEN "unclassified" ELSE @,
                       !.stop_iter = IF classified = 0 THEN locals[j].iteration ELSE @])
       /\ locals' = [locals EXCEPT ![j].classified = classified,
                                   ![j].test_result.nfail = 0]
       /\ IF classified = 0
          THEN /\ timeline' = [timeline EXCEPT
                      ![j] = record(@, locals[j].iteration, locals[j].test_result)]
               /\ Goto(j, "push")
          ELSE /\ UNCHANGED timeline
               /\ Goto(j, "fix")
    /\ UNCHANGED request
    /\ UNCHANGED notRun

\* a loop that goes on to the commit although no proposal is Fixed
GenerateFixes_goes_on(j, proposals) ==
    /\ At(j, "fix")
    /\ Progress(j)
    /\ Traced(j, [Reported(j) EXCEPT
                    !.fix_runs = @ + 1,
                    !.stop = IF proposals.fixed = 0 THEN "nofix" ELSE @,
                    !.stop_iter = IF proposals.fixed = 0 THEN locals[j].iteration ELSE @])
    /\ locals' = [locals EXCEPT
                    ![j].all_proposals = AddProposals(@, proposals),
                    ![j].classified = 0,
                    ![j].fixed = proposals.fixed]
    /\ Goto(j, "commit")
    /\ UNCHANGED <<request, timeline>>
    /\ UNCHANGED notRun

\* the list classified is not read again after the fix pipeline ran
GenerateFixes(j, proposals) ==
    /\ At(j, "fix")
    /\ Progress(j)
    /\ Traced(j, [Reported(j) EXCEPT
                    !.fix_runs = @ + 1,
                    !.stop = IF proposals.fixed = 0 THEN "nofix" ELSE @,
                    !.stop_iter = IF proposals.fixed = 0 THEN locals[j].iteration ELSE @])
    /\ locals' = [locals EXCEPT
                    ![j].all_proposals = AddProposals(@, proposals),
                    ![j].classified = 0,
                    ![j].fixed = proposals.fixed]
    /\ IF proposals.fixed = 0
       THEN /\ timeline' = [timeline EXCEPT
                   ![j] = record(@, locals[j].iteration, locals[j].test_result)]
            /\ Goto(j, "push")
       ELSE /\ UNCHANGED timeline
            /\ Goto(j, "commit")
    /\ UNCHANGED request
    /\ UNCHANGED notRun

\* CommitAgent._commit_file: how the attempt to commit one file ends.
\* "committed": the file is staged and repo.index.commit makes a commit;
\* "noop": nothing is staged and nothing untracked, no commit is made;
\* "recovered": the targeted add raises GitCommandError, add -A finds changes
\* and repo.index.commit makes a commit; "failed": any other way the git
\* calls raise, no commit is made
CommitOutcomes == {"committed", "noop", "recovered", "failed"}

\* repo.index.commit was executed: a commit exists in the repository
Created(outcome) == outcome \in {"committed", "recovered"}

\* an attempt that reports a SHA although it found nothing to commit
_commit_file_sha_on_noop(outcome) ==
    IF outcome \in {"committed", "recovered", "noop"} THEN <<"sha">> ELSE None

\* the value _commit_file returns: the SHA of the commit made, or None
_commit_file(outcome) ==
    IF outcome \in {"committed", "recovered"} THEN <<"sha">> ELSE None

\* CommitAgent.run over the Fixed proposals handed to it, outcomes[k] being
\* how the attempt for the k-th ends: the number of SHAs in the list returned
CommitAgent_run(outcomes) ==
    Cardinality({ k \in DOMAIN outcomes : _commit_file(outcomes[k]) # None })

\* commit_agent.run pushes the commits it made when it made any and a
\* token was given; pushed is what that push_changes returns
PushesCommits(j, ncommits) == ncommits > 0 /\ request[j].github_token

\* the list fixed is not read again after the commit; outcomes: how the
\* commit attempt of each Fixed proposal of the iteration ends
Commit(j, outcomes, pushed) ==
    LET commit_shas == CommitAgent_run(outcomes) IN
    /\ At(j, "commit")
    /\ Len(outcomes) = locals[j].fixed
    /\ Progress(j)
    /\ Traced(j, [Reported(j) EXCEPT
                    !.commit_runs = @ + 1,
                    !.commits = @ + Cardinality({ k \in DOMAIN outcomes :
                                                    Created(outcomes[k]) }),
                    !.pushes = IF PushesCommits(j, commit_shas) THEN @ + 1 ELSE @,
                    !.push_failed = IF PushesCommits(j, commit_shas)
                                    THEN @ \/ ~pushed ELSE @])
    /\ locals' = [locals EXCEPT ![j].total_fixes_applied = @ + commit_shas,
                                ![j].fixed = 0]
    /\ Goto(j, "posttest")
    /\ UNCHANGED <<request, timeline>>
    /\ UNCHANGED notRun

\* a loop that takes one iteration more than the retry limit
PostTest_one_more(j, post_result) ==
    /\ At(j, "posttest")
    /\ Progress(j)
    /\ Traced(j, [Reported(j) EXCEPT
                    !.tests = @ + 1,
                    !.last_test = IF post_result.passed THEN "passed" ELSE "failed",
                    !.tested_after_push = (trace[j].pushes > 0),
                    !.stop = IF post_result.passed THEN "green"
                             ELSE IF locals[j].iteration <= request[j].retry_limit THEN @
                             ELSE "exhausted",
                    !.stop_iter = IF post_result.passed
                                     \/ locals[j].iteration > request[j].retry_limit
                                  THEN locals[j].iteration ELSE @])
    /\ timeline' = [timeline EXCEPT
          ![j] = recordPost(@, locals[j].iteration, locals[j].test_result, post_result)]
    /\ IF post_result.passed
       THEN /\ Goto(j, "green")
            /\ UNCHANGED locals
       ELSE IF locals[j].iteration <= request[j].retry_limit
       THEN /\ Goto(j, "pretest")
            /\ locals' = [locals EXCEPT ![j].iteration = @ + 1,
                                        ![j].test_result = NoResult]
       ELSE /\ Goto(j, "finaltest")
            /\ UNCHANGED locals
    /\ UNCHANGED request
    /\ UNCHANGED notRun

\* post-fix test run; on failure the for loop takes its next iteration or,
\* exhausted, enters its else clause
PostTest(j, post_result) ==
    /\ At(j, "posttest")
    /\ Progress(j)
    /\ Traced(j, [Reported(j) EXCEPT
                    !.tests = @ + 1,
                    !.last_test = IF post_result.passed THEN "passed" ELSE "failed",
                    !.tested_after_push = (trace[j].pushes > 0),
                    !.stop = IF post_result.passed THEN "green"
                             ELSE IF locals[j].iteration < request[j].retry_limit THEN @
                             ELSE "exhausted",
                    !.stop_iter = IF post_result.passed
                                     \/ locals[j].iteration >= request[j].retry_limit
                                  THEN locals[j].iteration ELSE @])
    /\ timeline' = [timeline EXCEPT
          ![j] = recordPost(@, locals[j].iteration, locals[j].test_result, post_result)]
    /\ IF post_result.passed
       THEN /\ Goto(j, "green")
            /\ UNCHANGED locals
       ELSE IF locals[j].iteration < request[j].retry_limit
       THEN /\ Goto(j, "pretest")
            /\ locals' = [locals EXCEPT ![j].iteration = @ + 1,
                                        ![j].test_result = NoResult]
       ELSE /\ Goto(j, "finaltest")
            /\ UNCHANGED locals
    /\ UNCHANGED request
    /\ UNCHANGED notRun

\* a loop that leaves the CI status alone when the post-fix run passes
Green_keeps_failed(j) ==
    /\ At(j, "green")
    /\ Progress(j)
    /\ Traced(j, Reported(j))
    /\ Goto(j, "push")
    /\ UNCHANGED <<request, locals, timeline>>
    /\ UNCHANGED notRun

\* the post-fix run passed: the CI status is settled and the loop left
Green(j) ==
    /\ At(j, "green")
    /\ locals' = [locals EXCEPT ![j].ci_status_final = "PASSED"]
    /\ Progress(j)
    /\ Traced(j, Reported(j))
    /\ Goto(j, "push")
    /\ UNCHANGED <<request, timeline>>
    /\ UNCHANGED notRun

\* an else clause whose test run never changes the CI status
FinalTest_keeps_failed(j, final_test) ==
    /\ At(j, "finaltest")
    /\ timeline' = [timeline EXCEPT
           ![j] = IF final_test.passed THEN @
                  ELSE record(@, request[j].retry_limit, final_test)]
    /\ Traced(j, [trace[j] EXCEPT !.tests = @ + 1,
                                   !.last_test = IF final_test.passed THEN "passed"
                                                 ELSE "failed",
                                   !.tested_after_push = (trace[j].pushes > 0),
                                   !.final = IF final_test.passed THEN "passed"
                                             ELSE "failed"])
    /\ Goto(j, "push")
    /\ UNCHANGED <<jobs, request, result, sink, locals>>
    /\ UNCHANGED notRun

\* else clause of the for loop: one more test run settles the CI status
FinalTest(j, final_test) ==
    /\ At(j, "finaltest")
    /\ IF final_test.passed
       THEN /\ locals' = [locals EXCEPT ![j].ci_status_final = "PASSED"]
            /\ UNCHANGED timeline
       ELSE /\ timeline' = [timeline EXCEPT
                   ![j] = record(@, request[j].retry_limit, final_test)]
            /\ UNCHANGED locals
    /\ Traced(j, [trace[j] EXCEPT !.tests = @ + 1,
                                   !.last_test = IF final_test.passed THEN "passed"
                                                 ELSE "failed",
                                   !.tested_after_push = (trace[j].pushes > 0),
                                   !.final = IF final_test.passed THEN "passed"
                                             ELSE "failed"])
    /\ Goto(j, "push")
    /\ UNCHANGED <<jobs, request, result, sink>>
    /\ UNCHANGED notRun

\* a final push whose failure fails the job
Push_fails_job(j, pushed) ==
    /\ At(j, "push")
    /\ jobs' = on_progress(jobs, j, PushProgress)
    /\ sink' = [sink EXCEPT ![j] = IF j \in DOMAIN jobs
                                   THEN "Pushing branch to remote..." ELSE NoStep]
    /\ Traced(j, [Reported(j) EXCEPT
                    !.pushes = IF request[j].github_token THEN @ + 1 ELSE @,
                    !.push_failed = IF request[j].github_token THEN @ \/ ~pushed ELSE @])
    /\ IF request[j].github_token /\ ~pushed
       THEN /\ result' = [result EXCEPT
                   ![j].status = "FAILED", ![j].error = "push failed",
                   ![j].progress = FinalProgress,
                   ![j].current_step = "Failed: push failed"]
            /\ Return(j)
       ELSE /\ result' = [result EXCEPT
                   ![j].progress = PushProgress,
                   ![j].current_step = "Pushing branch to remote..."]
            /\ Goto(j, "score")
            /\ UNCHANGED <<locals, timeline>>
    /\ UNCHANGED request
    /\ UNCHANGED notRun

\* Step 5: with a token, push_changes is called; it catches every exception
\* and returns a bool (pushed) that run ignores
Push(j, pushed) ==
    /\ At(j, "push")
    /\ Progress(j)
    /\ Traced(j, [Reported(j) EXCEPT
                    !.pushes = IF request[j].github_token THEN @ + 1 ELSE @,
                    !.push_failed = IF request[j].github_token THEN @ \/ ~pushed ELSE @])
    /\ Goto(j, "score")
    /\ UNCHANGED <<request, locals, timeline>>
    /\ UNCHANGED notRun

Score(j, elapsed) ==
    /\ At(j, "score")
    /\ LET l  == locals[j]
           sc == ComputeScore(l.total_failures_initial, l.total_fixes_applied,
                              elapsed, l.ci_status_final)
       IN
       /\ locals' = [locals EXCEPT ![j].elapsed = elapsed]
       /\ Traced(j, [trace[j] EXCEPT !.raw_score = sc.raw_score])
       /\ result' = [result EXCEPT
             ![j].score = [base_score |-> sc.base_score, speed_bonus |-> sc.speed_bonus,
                           efficiency_penalty |-> sc.efficiency_penalty,
                           ci_penalty |-> sc.ci_penalty, final_score |-> sc.final_score],
             ![j].summary = [set |-> TRUE, total_failures |-> l.total_failures_initial,
                             total_fixes |-> l.total_fixes_applied,
                             ci_status |-> l.ci_status_final,
                             time_taken_seconds |-> elapsed,
                             iterations_used |-> Len(timeline[j])],
             ![j].fixes = l.all_proposals,
             ![j].ci_timeline = timeline[j],
             ![j].status = "COMPLETED",
             ![j].progress = FinalProgress,
             ![j].current_step = "Completed"]
    /\ Goto(j, "finish")
    /\ UNCHANGED <<jobs, request, timeline, sink>>
    /\ UNCHANGED notRun

\* _progress(100, "Done!"), then return result
Finish(j) ==
    /\ At(j, "finish")
    /\ Progress(j)
    /\ Traced(j, Reported(j))
    /\ Return(j)
    /\ UNCHANGED request
    /\ UNCHANGED notRun

\* a handler that leaves the progress where the failing phase put it
Failed_keeps_progress(r, msg) ==
    [r EXCEPT !.status = "FAILED", !.error = msg, !.current_step = "Failed: " \o msg]

\* a handler that does not demote a result already marked COMPLETED
Failed_keeps_completed(r, msg) ==
    [r EXCEPT !.status = IF @ = "COMPLETED" THEN @ ELSE "FAILED", !.error = msg,
              !.progress = FinalProgress, !.current_step = "Failed: " \o msg]

\* except Exception as e: the handler's writes to result
Failed(r, msg) ==
    [r EXCEPT !.status = "FAILED", !.error = msg, !.progress = FinalProgress,
              !.current_step = "Failed: " \o msg]

\* a guard that marks the result Failed and lets the run go on with the
\* phase that raised
Raise_resumes(j, msg) ==
    /\ pc[j] \in TryPcs
    /\ sink[j] = NoStep
    /\ ~trace[j].raised
    /\ Traced(j, [trace[j] EXCEPT !.raised = TRUE, !.exc = msg, !.raised_at = pc[j]])
    /\ result' = [result EXCEPT ![j] = Failed(@, msg)]
    /\ UNCHANGED <<jobs, sink, pc, request, locals, timeline>>
    /\ UNCHANGED notRun

\* The phase at the current position raises and the top-level guard
\* (except Exception as e) handles it.  A phase that opens with _progress
\* raises after that report (in the operation the report announces); run
\* then returns, and its locals and its orchestrator are dropped.
Raise(j, msg) ==
    /\ pc[j] \in TryPcs
    /\ sink[j] = NoStep
    /\ IF pc[j] \in ReportingPcs
       THEN LET rp == PhaseReport(pc[j], locals[j].iteration, request[j].retry_limit) IN
            /\ jobs' = on_progress(jobs, j, rp.pct)
            /\ sink' = [sink EXCEPT ![j] = IF j \in DOMAIN jobs THEN rp.step ELSE NoStep]
            /\ Traced(j, [Reported(j) EXCEPT !.raised = TRUE, !.exc = msg,
                                             !.raised_at = pc[j]])
       ELSE /\ Traced(j, [trace[j] EXCEPT !.raised = TRUE, !.exc = msg,
                                            !.raised_at = pc[j]])
            /\ UNCHANGED <<jobs, sink>>
    /\ result' = [result EXCEPT ![j] = Failed(@, msg)]
    /\ Return(j)
    /\ UNCHANGED request
    /\ UNCHANGED notRun

(* ------------------------------------------------------------------ *)
(* Specifications                                                      *)
(* ------------------------------------------------------------------ *)
\* every step of job j's background task; no test run or classification
\* yields more than maxf records, and the test command of a pre-fix run
\* ends in one of the given ways
TaskStepWith(j, maxf, outcomes) ==
    \/ OnProgressStep(j)
    \/ StartRun(j)
    \/ Clone(j)
    \/ Checkout(j)
    \/ Analyze(j)
    \/ \E o \in outcomes : \E r \in SandboxResults(maxf, o) : RunTests(j, r, o)
    \/ EarlyStop(j)
    \/ \E n \in 0..(maxf - locals[j].test_result.nfail) : Classify(j, n)
    \/ \E b \in ProposalBags(locals[j].classified) : GenerateFixes(j, b)
    \/ \E cs \in [1..locals[j].fixed -> CommitOutcomes] :
          \E pushed \in (IF PushesCommits(j, CommitAgent_run(cs))
                         THEN BOOLEAN ELSE {TRUE}) :
             Commit(j, cs, pushed)
    \/ \E r \in TestResults(maxf) : PostTest(j, r)
    \/ Green(j)
    \/ \E r \in TestResults(maxf) : FinalTest(j, r)
    \/ \E pushed \in (IF request[j].github_token THEN BOOLEAN ELSE {TRUE}) :
          Push(j, pushed)
    \/ \E e \in {SpeedLimitSeconds - 1, SpeedLimitSeconds} : Score(j, e)
    \/ Finish(j)
    \/ \E m \in ExcMessages : Raise(j, m)
    \/ StoreResult(j)

\* the steps of job j's task when every test command runs to its end
TaskStep(j, maxf) == TaskStepWith(j, maxf, {"completed"})

\* one job is submitted, with a retry limit among rls
SubmitOne(rls) ==
    \E rl \in rls, tok \in BOOLEAN :
        /\ DOMAIN jobs = {}
        /\ run_agent(FreshId, rl, tok)

\* Spec: one job, retry limits up to MaxRetryLimit, up to MaxFailures
\* failure records per test run
Next ==
    \/ SubmitOne(RetryLimitMin..MaxRetryLimit)
    \/ \E j \in JobIds : TaskStep(j, MaxFailures)

Spec == Init /\ [][Next]_vars

\* ProgressSpec: one job, every retry limit the API accepts, at most one
\* failure record per test run
NextProgress ==
    \/ SubmitOne(RetryLimits)
    \/ \E j \in JobIds : TaskStep(j, 1)

ProgressSpec == Init /\ [][NextProgress]_vars

\* LiveSpec: one job, retry limits up to MaxRetryLimit, at most one failure
\* record per test run, and the background task of every job scheduled
\* fairly (the thread pool runs it, and every external operation returns
\* or raises)
NextLive ==
    \/ SubmitOne(RetryLimitMin..MaxRetryLimit)
    \/ \E j \in JobIds : TaskStep(j, 1)

LiveSpec == Init /\ [][NextLive]_vars /\ \A j \in JobIds : WF_vars(TaskStep(j, 1))

\* SandboxSpec: one job, retry limits up to MaxRetryLimit, at most one
\* failure record per test run, and pre-fix test commands that complete,
\* time out or cannot be started
NextSandbox ==
    \/ SubmitOne(RetryLimitMin..MaxRetryLimit)
    \/ \E j \in JobIds : TaskStepWith(j, 1, SandboxOutcomes)

SandboxSpec == Init /\ [][NextSandbox]_vars

\* RegistrySpec: up to NumJobs jobs submitted at any time and running
\* side by side, each with retry limit 1, no token and a repository whose
\* tests pass at once
SubmitAny ==
    /\ DOMAIN jobs # JobIds
    /\ run_agent(FreshId, RetryLimitMin, FALSE)

PassingStep(j) ==
    \/ OnProgressStep(j)
    \/ StartRun(j)
    \/ Clone(j)
    \/ Checkout(j)
    \/ Analyze(j)
    \/ RunTests(j, TestRunnerRun(0, 0, "clean", 0), "completed")
    \/ EarlyStop(j)
    \/ Push(j, TRUE)
    \/ Score(j, SpeedLimitSeconds)
    \/ Finish(j)
    \/ Raise(j, "boom")
    \/ StoreResult(j)

NextRegistry ==
    \/ SubmitAny
    \/ \E j \in JobIds : PassingStep(j)

RegistrySpec == Init /\ [][NextRegistry]_vars

\* IsolationSpec: up to NumJobs jobs submitted at any time and running
\* side by side, each with retry limit 1 and no token, on a repository
\* with one failing test for which the fix pipeline yields one Fixed
\* proposal that is committed; the post-fix run passes or fails
OneFailure == TestRunnerRun(1, 1, "clean", 0)

AllPassed == TestRunnerRun(0, 0, "clean", 0)

OneFixed == [fixed |-> 1, skipped |-> 0, failed |-> 0]

FixingStep(j) ==
    \/ OnProgressStep(j)
    \/ StartRun(j)
    \/ Clone(j)
    \/ Checkout(j)
    \/ Analyze(j)
    \/ RunTests(j, OneFailure, "completed")
    \/ Classify(j, 0)
    \/ GenerateFixes(j, OneFixed)
    \/ Commit(j, <<"committed">>, TRUE)
    \/ \E r \in {AllPassed, OneFailure} : PostTest(j, r)
    \/ Green(j)
    \/ FinalTest(j, OneFailure)
    \/ Push(j, TRUE)
    \/ Score(j, SpeedLimitSeconds)
    \/ Finish(j)
    \/ StoreResult(j)

NextIsolation ==
    \/ SubmitAny
    \/ \E j \in JobIds : FixingStep(j)

IsolationSpec == Init /\ [][NextIsolation]_vars

(* ------------------------------------------------------------------ *)
(* ScoreSpec: the scoring step of run on its own, over the values its  *)
(* four inputs can have at the end of the loop.                        *)
(* ------------------------------------------------------------------ *)
\* largest total_failures_initial and total_fixes_applied drawn
MaxInitialFailures == 12
MaxTotalFixes == 22

\* a commit is only made in an iteration whose pre-fix run failed, so the
\* first run recorded at least one failure whenever a fix was applied
InitScore ==
    /\ jobs = << >>
    /\ pc = [j \in JobIds |-> "idle"]
    /\ request = [j \in JobIds |-> NoRequest]
    /\ result = [j \in JobIds |-> RunResult("RUNNING", 0, "Initializing...")]
    /\ locals = [j \in JobIds |-> InitLocals]
    /\ timeline = [j \in JobIds |-> << >>]
    /\ sink = [j \in JobIds |-> NoStep]
    /\ trace = [j \in JobIds |-> InitTrace]
    /\ disk = NoDisk
    /\ fixgen = NoFixGen
    /\ fixlog = NoFixLog
    /\ fixin = NoFixIn
    /\ classifier = NoClassifier
    /\ runner = NoRunner
    /\ \E i \in 0..MaxInitialFailures, f \in 0..MaxTotalFixes,
          e \in {SpeedLimitSeconds - 1, SpeedLimitSeconds}, ci \in {"PASSED", "FAILED"} :
          /\ f > 0 => i > 0
          /\ scoring = [NoScoring EXCEPT !.pc = "score", !.total_failures_initial = i,
                                         !.total_fixes_applied = f, !.elapsed = e,
                                         !.ci_status_final = ci]

\* Step 6 of run: compute the score from the loop's accumulators
ScoreStep ==
    /\ scoring.pc = "score"
    /\ LET sc == ComputeScore(scoring.total_failures_initial, scoring.total_fixes_applied,
                              scoring.elapsed, scoring.ci_status_final)
       IN scoring' = [scoring EXCEPT
             !.pc = "scored",
             !.raw_score = sc.raw_score,
             !.score = [base_score |-> sc.base_score, speed_bonus |-> sc.speed_bonus,
                        efficiency_penalty |-> sc.efficiency_penalty,
                        ci_penalty |-> sc.ci_penalty, final_score |-> sc.final_score]]
    /\ UNCHANGED <<runVars, fixVars, unitVars>>

NextScore == ScoreStep

ScoreSpec == InitScore /\ [][NextScore]_vars

(* ------------------------------------------------------------------ *)
(* FixSpec: one call of FixGeneratorAgent.run on its own, over a       *)
(* repository of two files and a list of classified failures that is   *)
(* drawn one failure at a time.                                        *)
(* ------------------------------------------------------------------ *)
\* largest number of characters of a file's initial content
MaxLen == 2
\* largest number of classified failures handed to one call
MaxFixFailures == 2

Chars == {"t", "n", "x", "i"}

Contents == UNION { [1..k -> Chars] : k \in 0..MaxLen }

\* the content of the second file: a line and a tab-indented line under it
OtherContent == <<"x", "n", "t", "x", "n">>

\* the error messages drawn: one per combination the heuristics tell apart
Messages ==
    { Message(FALSE, FALSE, 0, FALSE), Message(TRUE, TRUE, 0, FALSE),
      Message(TRUE, FALSE, 0, FALSE), Message(FALSE, FALSE, 1, FALSE),
      Message(FALSE, FALSE, 2, FALSE), Message(FALSE, FALSE, 1, TRUE) }

\* what the model can answer about a file: nothing, the file as it is, or
\* some other text
Replies(file) ==
    {None, << >>, <<"x", "n">>}
        \cup (IF RealFile(file) \in DOMAIN disk /\ disk[RealFile(file)] # None
              THEN {disk[RealFile(file)]} ELSE {})

InitFix ==
    /\ jobs = << >>
    /\ pc = [j \in JobIds |-> "idle"]
    /\ request = [j \in JobIds |-> NoRequest]
    /\ result = [j \in JobIds |-> RunResult("RUNNING", 0, "Initializing...")]
    /\ locals = [j \in JobIds |-> InitLocals]
    /\ timeline = [j \in JobIds |-> << >>]
    /\ sink = [j \in JobIds |-> NoStep]
    /\ trace = [j \in JobIds |-> InitTrace]
    /\ scoring = NoScoring
    /\ \E c \in Contents \cup {None} :
          disk = [f \in Files |-> IF f = "a.py" THEN c ELSE OtherContent]
    /\ \E agent \in BOOLEAN : fixgen = [NoFixGen EXCEPT !.pc = "loop", !.agent = agent]
    /\ fixlog = [NoFixLog EXCEPT !.before = disk, !.disk0 = disk, !.calls = 1]
    /\ fixin = NoFixIn
    /\ classifier = NoClassifier
    /\ runner = NoRunner

\* read_file_safe: the content, or None for a path that cannot be read
read_file_safe(path) == disk[RealFile(path)]

\* the skip tests at the head of the loop body let the failure through
Attempted(abs_file) ==
    RealFile(abs_file) \in DOMAIN disk /\ abs_file \notin fixgen.seen_files

\* fixed_content once both strategies had their turn: the model's answer,
\* or else the heuristic's
Candidate(abs_file, bug_type, error_message, reply) ==
    LET content == read_file_safe(abs_file)
        llm     == fix_with_llm(fixgen.agent, reply)
    IN  IF Truthy(llm) THEN llm
        ELSE IF content = None THEN None
        ELSE heuristic_fix(content, bug_type, error_message)

\* original = read_file_safe(abs_file) or ""
Original(abs_file) ==
    IF read_file_safe(abs_file) = None THEN << >> ELSE read_file_safe(abs_file)

\* the loop body reaches write_file_safe with this candidate
Written(abs_file, fixed_content) ==
    /\ Truthy(fixed_content)
    /\ Strip(Original(abs_file)) # Strip(fixed_content)

\* a proposal that is recorded as Failed although the file was written
FixedProposal_as_failed(rel_file) == [file |-> rel_file, status |-> "Failed"]

\* the FixProposal appended after the write
FixedProposal(rel_file) == [file |-> rel_file, status |-> "Fixed"]

\* one pass through the body of the for loop of FixGeneratorAgent.run, for
\* a failure naming raw_file with the given bug type and error message;
\* reply is the model's answer should it be asked, outcome what the write
\* does should one be made
FixOne(raw_file, bug_type, error_message, reply, outcome) ==
    /\ fixgen.pc = "loop"
    /\ fixgen.idx < MaxFixFailures
    /\ LET abs_file == os_path_join(raw_file)
           next     == [fixgen EXCEPT !.idx = @ + 1]
       IN
       IF ~Attempted(abs_file)
       THEN \* continue: no proposal
            /\ fixgen' = next
            /\ fixlog' = [fixlog EXCEPT !.attempted = FALSE, !.file = abs_file,
                                        !.original = << >>, !.candidate = None,
                                        !.status = "none", !.before = disk]
            /\ UNCHANGED disk
       ELSE
       LET fixed_content == Candidate(abs_file, bug_type, error_message, reply)
           log(st)  == [fixlog EXCEPT !.attempted = TRUE, !.file = abs_file,
                                      !.original = read_file_safe(abs_file),
                                      !.candidate = fixed_content, !.status = st,
                                      !.before = disk]
           prop(st) == [file |-> os_path_relpath(abs_file), status |-> st]
       IN
       IF Truthy(fixed_content)
       THEN IF ~Written(abs_file, fixed_content)
            THEN /\ fixgen' = [next EXCEPT !.proposals = Append(@, prop("Skipped"))]
                 /\ fixlog' = log("Skipped")
                 /\ UNCHANGED disk
            ELSE /\ disk' = [disk EXCEPT
                       ![RealFile(abs_file)] = write_file_safe(@, fixed_content, outcome)]
                 /\ fixgen' = [next EXCEPT
                       !.seen_files = @ \cup {abs_file},
                       !.proposals = Append(@, FixedProposal(os_path_relpath(abs_file)))]
                 /\ fixlog' = log(FixedProposal(os_path_relpath(abs_file)).status)
       ELSE /\ fixgen' = [next EXCEPT !.proposals = Append(@, prop("Failed"))]
            /\ fixlog' = log("Failed")
            /\ UNCHANGED disk
    /\ UNCHANGED <<runVars, scoring, unitVars>>

\* the list of failures is exhausted: run returns its proposals
FixReturn ==
    /\ fixgen.pc = "loop"
    /\ fixgen' = [fixgen EXCEPT !.pc = "returned"]
    /\ UNCHANGED <<runVars, scoring, unitVars, disk, fixlog, fixin>>

\* the loop body hands the failure to _heuristic_fix
AsksHeuristic(abs_file, reply) ==
    Attempted(abs_file) /\ ~Truthy(fix_with_llm(fixgen.agent, reply))

\* the next failure of the list: a bug type and a message are drawn where
\* the heuristic looks at them, an answer where the model is asked and a
\* write outcome where the file is written
NextFix ==
    \/ \E f \in Files \cup {MissingFile} :
          \E reply \in (IF Attempted(f) /\ fixgen.agent THEN Replies(f) ELSE {None}) :
             \E bt \in (IF AsksHeuristic(f, reply) THEN BugTypes ELSE {"UNKNOWN"}),
                m \in (IF AsksHeuristic(f, reply) THEN Messages
                       ELSE {Message(FALSE, FALSE, 0, FALSE)}) :
                \E outcome \in (IF Attempted(f) /\ Written(f, Candidate(f, bt, m, reply))
                                THEN WriteOutcomes ELSE {"ok"}) :
                   FixOne(f, bt, m, reply, outcome) /\ UNCHANGED fixin
    \/ FixReturn

FixSpec == InitFix /\ [][NextFix]_vars

(* ------------------------------------------------------------------ *)
(* IndentSpec: FixGeneratorAgent.run called in successive iterations   *)
(* of the orchestrator's loop, every failure an Indentation failure    *)
(* and no generative agent configured.                                 *)
(* ------------------------------------------------------------------ *)
\* largest number of calls of run (iterations)
MaxCalls == 2

InitIndent == InitFix /\ ~fixgen.agent

\* the next iteration calls run again: proposals = [], seen_files = set()
FixCall ==
    /\ fixgen.pc = "returned"
    /\ fixlog.calls < MaxCalls
    /\ fixgen' = [fixgen EXCEPT !.pc = "loop", !.idx = 0, !.seen_files = {},
                                !.proposals = << >>]
    /\ fixlog' = [NoFixLog EXCEPT
                    !.before = disk, !.disk0 = disk, !.calls = fixlog.calls + 1,
                    !.prev = [file |-> fixlog.file, candidate |-> fixlog.candidate,
                              status |-> fixlog.status]]
    /\ UNCHANGED <<runVars, scoring, unitVars, disk, fixin>>

NextIndent ==
    \/ \E f \in Files :
          \E outcome \in (IF Attempted(f) /\ Written(f, Candidate(f, "INDENTATION",
                                                Message(FALSE, FALSE, 0, FALSE), None))
                          THEN WriteOutcomes ELSE {"ok"}) :
             /\ FixOne(f, "INDENTATION", Message(FALSE, FALSE, 0, FALSE), None, outcome)
             /\ UNCHANGED fixin
    \/ FixReturn
    \/ FixCall

IndentSpec == InitIndent /\ [][NextIndent]_vars

(* ------------------------------------------------------------------ *)
(* FallbackSpec: one call of FixGeneratorAgent.run in which the model, *)
(* where there is one, raises or returns an empty text; the bug type,  *)
(* the message and the answer of each failure are kept in fixin.       *)
(* ------------------------------------------------------------------ *)
\* the answers drawn: the call raised (None) or returned ''
EmptyReplies == {None, << >>}

\* the loop body with its inputs recorded
FixOneRecorded(raw_file, bug_type, error_message, reply, outcome) ==
    /\ FixOne(raw_file, bug_type, error_message, reply, outcome)
    /\ fixin' = [bug_type |-> bug_type, error_message |-> error_message,
                 reply |-> reply]

NextFallback ==
    \/ \E f \in Files \cup {MissingFile} :
          \E reply \in (IF Attempted(f) /\ fixgen.agent THEN EmptyReplies ELSE {None}) :
             \E bt \in (IF AsksHeuristic(f, reply) THEN BugTypes ELSE {"UNKNOWN"}),
                m \in (IF AsksHeuristic(f, reply) THEN Messages
                       ELSE {Message(FALSE, FALSE, 0, FALSE)}) :
                \E outcome \in (IF Attempted(f) /\ Written(f, Candidate(f, bt, m, reply))
                                THEN WriteOutcomes ELSE {"ok"}) :
                   FixOneRecorded(f, bt, m, reply, outcome)
    \/ FixReturn

FallbackSpec == InitFix /\ [][NextFallback]_vars

\* SpellingSpec: one call of FixGeneratorAgent.run over failures that name
\* a.py in either spelling, or b.py
Spellings == {"a.py", DottedFile, "b.py"}

NextSpelling ==
    \/ \E f \in Spellings :
          \E reply \in (IF Attempted(os_path_join(f)) /\ fixgen.agent
                        THEN Replies(f) ELSE {None}) :
             \E bt \in (IF AsksHeuristic(os_path_join(f), reply)
                        THEN {"IMPORT", "INDENTATION", "UNKNOWN"} ELSE {"UNKNOWN"}),
                m \in (IF AsksHeuristic(os_path_join(f), reply) THEN Messages
                       ELSE {Message(FALSE, FALSE, 0, FALSE)}) :
                FixOne(f, bt, m, reply, "ok") /\ UNCHANGED fixin
    \/ FixReturn

SpellingSpec == InitFix /\ [][NextSpelling]_vars

(* ------------------------------------------------------------------ *)
(* ClassifySpec: BugClassifierAgent.run on one failure, over the texts *)
(* of up to MaxWords words.                                            *)
(* ------------------------------------------------------------------ *)
\* largest number of words of a failure's error message
MaxWords == 2

\* the words drawn: markers of each rule, a marker that only the classifier
\* knows ("unindent"), and a word that no rule knows
Words == {"IndentationError", "unindent", "SyntaxError", "ModuleNotFoundError",
          "TypeError", "NameError", "KeyError", "E501", "passed"}

Texts(n) == UNION { [1..k -> Words] : k \in 0..n }

InitClassify ==
    /\ jobs = << >>
    /\ pc = [j \in JobIds |-> "idle"]
    /\ request = [j \in JobIds |-> NoRequest]
    /\ result = [j \in JobIds |-> RunResult("RUNNING", 0, "Initializing...")]
    /\ locals = [j \in JobIds |-> InitLocals]
    /\ timeline = [j \in JobIds |-> << >>]
    /\ sink = [j \in JobIds |-> NoStep]
    /\ trace = [j \in JobIds |-> InitTrace]
    /\ scoring = NoScoring
    /\ disk = NoDisk
    /\ fixgen = NoFixGen
    /\ fixlog = NoFixLog
    /\ fixin = NoFixIn
    /\ runner = NoRunner
    /\ \E em \in Texts(MaxWords), ro \in {None} \cup Texts(1) :
          classifier = [NoClassifier EXCEPT !.pc = "call", !.error_message = em,
                                            !.raw_output = ro]

\* msg = f.get("error_message", "") + " " + (f.get("raw_output") or "")
FailureText(f) ==
    f.error_message \o (IF f.raw_output = None THEN << >> ELSE f.raw_output)

\* the body of the loop of BugClassifierAgent.run over the raw failures
ClassifyFailure ==
    /\ classifier.pc = "call"
    /\ classifier' = [classifier EXCEPT !.pc = "done",
                                        !.bug_type = _classify(FailureText(classifier))]
    /\ UNCHANGED <<runVars, scoring, fixVars, runner>>

NextClassify == ClassifyFailure

ClassifySpec == InitClassify /\ [][NextClassify]_vars

(* ------------------------------------------------------------------ *)
(* TestSpec: one call of TestRunnerAgent.run, over what the test       *)
(* command and the two lint commands return.                           *)
(* ------------------------------------------------------------------ *)
OutWords == ErrorLines \cup {"IndentationError", "SyntaxError", " ", "passed"}

OutTexts(n) == UNION { [1..k -> OutWords] : k \in 0..n }

\* what a lint command prints: nothing, a line that is no finding, findings
LintOutputs ==
    { << >>, <<"All checks passed">>, <<"a.py:1:1: F401 unused import">> }

\* the test command writes little to stdout; records are only parsed after
\* a failing exit and out of some output; flake8 only runs after a ruff
\* that failed without output
InitTest ==
    /\ jobs = << >>
    /\ pc = [j \in JobIds |-> "idle"]
    /\ request = [j \in JobIds |-> NoRequest]
    /\ result = [j \in JobIds |-> RunResult("RUNNING", 0, "Initializing...")]
    /\ locals = [j \in JobIds |-> InitLocals]
    /\ timeline = [j \in JobIds |-> << >>]
    /\ sink = [j \in JobIds |-> NoStep]
    /\ trace = [j \in JobIds |-> InitTrace]
    /\ scoring = NoScoring
    /\ disk = NoDisk
    /\ fixgen = NoFixGen
    /\ fixlog = NoFixLog
    /\ fixin = NoFixIn
    /\ classifier = NoClassifier
    /\ \E exit_code \in 0..1, stdout \in OutTexts(1), stderr \in OutTexts(MaxWords),
          lint_exit \in 0..1, lint_out \in LintOutputs :
          \E nparsed \in (IF exit_code # 0 /\ (stdout # << >> \/ stderr # << >>)
                          THEN 0..MaxFailures ELSE {0}),
             flake_exit \in (IF lint_exit # 0 /\ ~NotBlank(lint_out) THEN 0..1 ELSE {0}),
             flake_out \in (IF lint_exit # 0 /\ ~NotBlank(lint_out)
                            THEN LintOutputs ELSE {<< >>}) :
             runner = [NoRunner EXCEPT
                         !.pc = "call", !.exit_code = exit_code, !.nparsed = nparsed,
                         !.stdout = stdout, !.stderr = stderr,
                         !.lint_exit = lint_exit, !.lint_out = lint_out,
                         !.flake_exit = flake_exit, !.flake_out = flake_out]

RunnerRun ==
    /\ runner.pc = "call"
    /\ runner' = [runner EXCEPT
          !.pc = "done",
          !.result = TestRunnerAgent_run(runner.exit_code, runner.nparsed, runner.stdout,
                                         runner.stderr, runner.lint_exit, runner.lint_out,
                                         runner.flake_exit, runner.flake_out)]
    /\ UNCHANGED <<runVars, scoring, fixVars, classifier>>

NextTest == RunnerRun

TestSpec == InitTest /\ [][NextTest]_vars

(* ------------------------------------------------------------------ *)
(* Claims                                                              *)
(* ------------------------------------------------------------------ *)
Returned(j) == pc[j] \in {"returned", "stored"}

\* C1: when run returns a completed job, its timeline holds at most
\* retry_limit CITimepoints.
C1_TimelineWithinRetryLimit ==
    \A j \in JobIds :
        (Returned(j) /\ result[j].status = "COMPLETED")
            => Len(result[j].ci_timeline) <= request[j].retry_limit

\* C2: in every state of a run the iteration numbers of the recorded
\* CITimepoints, in append order, are exactly 1, 2, ..., k.
C2_IterationsAreOneToK ==
    \A j \in JobIds :
        \A i \in 1..Len(timeline[j]) : timeline[j][i].iteration = i

\* C3: once the pre-fix test run of iteration 1 has passed, neither the
\* classifier, the fix pipeline nor the commit agent is ever invoked, and a
\* run that then completes returns exactly one CITimepoint (iteration 1,
\* Passed, no post-fix status), CI status Passed and zero fixes applied.
C3_FirstRunPasses ==
    \A j \in JobIds :
        trace[j].first_passed =>
            /\ trace[j].classifications = 0
            /\ trace[j].fix_runs = 0
            /\ trace[j].commit_runs = 0
            /\ trace[j].tests = 1
            /\ (Returned(j) /\ ~trace[j].raised) =>
                  /\ result[j].ci_timeline = << CITimepoint(1, "PASSED", "none") >>
                  /\ result[j].summary.ci_status = "PASSED"
                  /\ result[j].summary.total_fixes = 0
                  /\ result[j].fixes = NoProposals

C3_Witness ==
    \E j \in JobIds :
        /\ pc[j] = "stored"
        /\ trace[j].first_passed
        /\ jobs[j].status = "COMPLETED"
        /\ Len(jobs[j].ci_timeline) = 1

\* C4: when a step of run raised, the job run returns has status Failed,
\* holds the exception's message as error, has progress 100 and a non-empty
\* current_step; and no returned job has status Running.
C4_RaiseYieldsFailedJob ==
    \A j \in JobIds :
        Returned(j) =>
            /\ result[j].status # "RUNNING"
            /\ trace[j].raised =>
                  /\ result[j].status = "FAILED"
                  /\ result[j].error = trace[j].exc
                  /\ result[j].progress = FinalProgress
                  /\ result[j].current_step # ""

\* a run that raised in the middle of an iteration (after a commit) has returned
C4_Witness ==
    \E j \in JobIds :
        /\ Returned(j)
        /\ trace[j].raised
        /\ trace[j].commit_runs > 0
        /\ trace[j].last_pct < PushProgress

Settled(j) ==
    /\ j \in DOMAIN jobs
    /\ jobs[j].status \in {"COMPLETED", "FAILED"}
    /\ jobs[j].current_step # ""

\* C5: a submitted job id is never unknown to get_status, and every
\* submitted job eventually has a registry entry that is Completed or
\* Failed with a non-empty current_step.
C5_JobSettles ==
    /\ [](\A j \in JobIds : pc[j] # "idle" => get_status(j) # "404")
    /\ \A j \in JobIds : (pc[j] # "idle") ~> Settled(j)

C5_Witness ==
    \E j \in JobIds : pc[j] = "stored" /\ Settled(j) /\ jobs[j].status = "FAILED"

\* C6: the job run returns has status Completed exactly when no exception
\* was raised during the run, whatever the final CI status.
C6_CompletedIffNoException ==
    \A j \in JobIds :
        Returned(j) => (result[j].status = "COMPLETED" <=> ~trace[j].raised)

\* a run that never went green, and one that raised in its last report
C6_Witness ==
    \E j \in JobIds :
        /\ Returned(j)
        /\ result[j].status = "COMPLETED"
        /\ result[j].summary.ci_status = "FAILED"

\* C7: the percentages handed to the progress sink during one run never
\* decrease.
C7_ProgressNeverDecreases ==
    [][\A j \in JobIds : trace'[j].last_pct >= trace[j].last_pct]_vars

\* the score of section 4.4 of the specification
SpecScore(initialFailureCount, totalFixesApplied, elapsedSeconds, ciStatus) ==
    LET base              == 100 - 10 * Max(0, initialFailureCount - totalFixesApplied)
        speedBonus        == IF elapsedSeconds < 300 THEN 10 ELSE 0
        efficiencyPenalty == 2 * Max(0, totalFixesApplied - 20)
        rawScore          == Max(0, base + speedBonus - efficiencyPenalty)
        ciPenalty         == IF ciStatus # "PASSED" THEN Max(0, rawScore - 50) ELSE 0
    IN  [base_score |-> base, speed_bonus |-> speedBonus,
         efficiency_penalty |-> efficiencyPenalty, ci_penalty |-> ciPenalty,
         final_score |-> rawScore - ciPenalty]

\* C8: the ScoreBreakdown of a completed job equals the formula of the
\* specification applied to the job's initial failure count, total fixes
\* applied, elapsed time and final CI status.
C8_ScoreIsSpecFormula ==
    \A j \in JobIds :
        result[j].summary.set =>
            result[j].score = SpecScore(result[j].summary.total_failures,
                                        result[j].summary.total_fixes,
                                        result[j].summary.time_taken_seconds,
                                        result[j].summary.ci_status)

\* C9: a final CI status other than Passed caps the final score at 50 (and
\* makes it 50 when the raw score exceeds 50); with status Passed the CI
\* penalty is 0 and the final score is the raw score; the final score is
\* never negative.
C9_FailedRunsCappedAtFifty ==
    scoring.pc = "scored" =>
        /\ scoring.ci_status_final # "PASSED" =>
              /\ scoring.score.final_score <= 50
              /\ scoring.raw_score > 50 => scoring.score.final_score = 50
        /\ scoring.ci_status_final = "PASSED" =>
              /\ scoring.score.ci_penalty = 0
              /\ scoring.score.final_score = scoring.raw_score
        /\ scoring.score.final_score >= 0

\* a failed run whose raw score is above the cap, with commits beyond the
\* free twenty
C9_Witness ==
    /\ scoring.pc = "scored"
    /\ scoring.ci_status_final # "PASSED"
    /\ scoring.raw_score > 50
    /\ scoring.score.efficiency_penalty > 0

\* C10: whenever the candidate of a failure (from the generative or the
\* heuristic strategy) equals the original file content after trimming
\* surrounding whitespace, the proposal recorded for the failure is Skipped,
\* the file on disk is left unmodified and the file is not marked as fixed.
C10_IdenticalCandidateIsSkipped ==
    (/\ fixlog.attempted
     /\ fixlog.original # None
     /\ fixlog.candidate # None
     /\ Strip(fixlog.candidate) = Strip(fixlog.original))
        => /\ fixlog.status = "Skipped"
           /\ disk[fixlog.file] = fixlog.original
           /\ fixlog.file \notin fixgen.seen_files

\* C11: every file whose content differs from its content before the call
\* has a proposal with status Fixed, and a pass of the loop that ends in a
\* Skipped or Failed proposal, or in no proposal, leaves every file as it was.
C11_OnlyFixedTouchesDisk ==
    /\ \A f \in Files :
          disk[f] # fixlog.disk0[f] =>
              \E k \in 1..Len(fixgen.proposals) :
                  fixgen.proposals[k] = [file |-> f, status |-> "Fixed"]
    /\ (fixgen.idx > 0 /\ fixlog.status # "Fixed") => disk = fixlog.before

\* the call has returned after a Fixed proposal whose write changed the file
\* and a later failure that left the files alone
C11_Witness ==
    /\ fixgen.pc = "returned"
    /\ disk # fixlog.disk0
    /\ fixlog.status \in {"Skipped", "Failed", "none"}
    /\ fixgen.idx > 1

C13_OneAttemptPerFile ==
    \A i, k \in 1..Len(fixgen.proposals) :
        i # k => fixgen.proposals[i].file # fixgen.proposals[k].file

\* C14: the list run returns holds exactly one proposal per failure of the
\* list it was given.
C14_OneProposalPerFailure ==
    fixgen.pc = "returned" => Len(fixgen.proposals) = fixgen.idx

\* the priority order of the specification, most urgent first, and the
\* category of the first rule of the order with a marker in the text
SpecPriority ==
    <<"INDENTATION", "SYNTAX", "IMPORT", "TYPE_ERROR", "LOGIC", "LINTING">>

HasMarker(category, text) ==
    \E k \in 1..Len(PATTERNS) :
        PATTERNS[k][1] = category /\ Search(PATTERNS[k][2], text)

SpecCategory(text) ==
    IF \E i \in 1..Len(SpecPriority) : HasMarker(SpecPriority[i], text)
    THEN LET first == CHOOSE i \in 1..Len(SpecPriority) :
                         /\ HasMarker(SpecPriority[i], text)
                         /\ \A k \in 1..(i - 1) : ~HasMarker(SpecPriority[k], text)
         IN  SpecPriority[first]
    ELSE "UNKNOWN"

\* C15: the category given to a failure is that of the first rule, in the
\* order Indentation, Syntax, Import, TypeMismatch, Logic, LintViolation,
\* with a marker in the failure's text, and Unknown when there is none; a
\* text with an indentation marker is always given Indentation.
C15_ClassifierPriority ==
    classifier.pc = "done" =>
        /\ classifier.bug_type = SpecCategory(FailureText(classifier))
        /\ HasMarker("INDENTATION", FailureText(classifier))
              => classifier.bug_type = "INDENTATION"

\* a failure whose text has a syntax marker ahead of an indentation marker
C15_Witness ==
    /\ classifier.pc = "done"
    /\ classifier.error_message = <<"SyntaxError", "unindent">>
    /\ classifier.bug_type = "INDENTATION"

\* C16: replacing the tabs of a file is idempotent, for every content; and
\* when a call has fixed a file by it, the Indentation failure of a later
\* call on the file as written gets a candidate identical to the file and
\* a Skipped proposal, and the file stays as it is.
C16_IndentationFixIdempotent ==
    /\ \A f \in Files :
          disk[f] # None => ReplaceTabs(ReplaceTabs(disk[f])) = ReplaceTabs(disk[f])
    /\ (/\ fixlog.calls > 1
        /\ fixlog.attempted
        /\ fixlog.prev.status = "Fixed"
        /\ fixlog.prev.file = fixlog.file
        /\ fixlog.original = fixlog.prev.candidate)
          => /\ fixlog.candidate = fixlog.original
             /\ fixlog.status = "Skipped"
             /\ disk[fixlog.file] = fixlog.original

\* the second call met the file as the first call's fix wrote it
C16_Witness ==
    /\ fixlog.calls > 1
    /\ fixlog.attempted
    /\ fixlog.prev.status = "Fixed"
    /\ fixlog.prev.file = fixlog.file
    /\ fixlog.original = fixlog.prev.candidate
    /\ fixlog.status = "Skipped"

\* the failures of a result that no lint pass added
RECURSIVE TestFailuresOf(_)
TestFailuresOf(failures) ==
    IF failures = << >> THEN << >>
    ELSE (IF Head(failures).origin = "lint" THEN << >> ELSE << Head(failures) >>)
         \o TestFailuresOf(Tail(failures))

\* the raw text of a test command: its stderr, or its stdout when stderr is empty
RawText(r) == IF r.stderr # << >> THEN r.stderr ELSE r.stdout

\* the positions of the references in a text
RefPositions(text) == { k \in 1..Len(text) : text[k] \in ErrorLines }

\* C17: when the test command exits non-zero and no structured failure is
\* parsed, the result holds exactly one failure besides the lint findings:
\* its category is derived from the raw text, its file and line are those of
\* the first 'File "...", line N' reference of the raw text, and without a
\* reference its file is "unknown" and its line absent.
C17_SyntheticFailure ==
    (runner.pc = "done" /\ runner.exit_code # 0 /\ runner.nparsed = 0) =>
        LET fs  == TestFailuresOf(runner.result.failures)
            raw == RawText(runner)
            ps  == RefPositions(raw)
        IN  /\ Len(fs) = 1
            /\ fs[1].origin = "synthetic"
            /\ fs[1].bug_type = _classify_error(raw)
            /\ ps # {} =>
                  \E k \in ps :
                      /\ \A h \in ps : k <= h
                      /\ fs[1].file = RefFile(raw[k])
                      /\ fs[1].line = RefLine(raw[k])
            /\ ps = {} => (fs[1].file = "unknown" /\ fs[1].line = 0)

\* a failing run with two references in its stderr, and lint findings
C17_Witness ==
    /\ runner.pc = "done"
    /\ runner.exit_code # 0
    /\ runner.nparsed = 0
    /\ runner.stderr = <<"File b.py line 7", "File a.py line 3">>
    /\ Len(runner.result.failures) = 2
    /\ runner.result.failures[1].file = "b.py"

\* C18: whenever the test command exits 0 the result's passed flag is true,
\* whatever the lint pass reports; its findings only show up as failures.
C18_LintNeverFailsTheRun ==
    (runner.pc = "done" /\ runner.exit_code = 0) => runner.result.passed

\* C19: no push happens during the iteration loop: every push comes after
\* the last test execution of the job, and a job pushes at most once.
C19_PushOnlyAfterLastTest ==
    \A j \in JobIds :
        /\ ~trace[j].tested_after_push
        /\ trace[j].pushes <= 1

\* C20: a push that fails does not fail the job, which still completes with
\* its score computed; and without a credential no push is attempted.
C20_PushFailureNotFatal ==
    \A j \in JobIds :
        /\ ~request[j].github_token => trace[j].pushes = 0
        /\ (trace[j].push_failed /\ ~trace[j].raised) =>
              /\ result[j].status # "FAILED"
              /\ Returned(j) =>
                    /\ result[j].status = "COMPLETED"
                    /\ result[j].summary.set

\* a job whose final push failed has been stored as completed, and a job
\* without a credential went through the push step
C20_Witness ==
    \E j \in JobIds :
        /\ pc[j] = "stored"
        /\ trace[j].push_failed
        /\ trace[j].commit_runs = 0
        /\ jobs[j].status = "COMPLETED"
        /\ jobs[j].summary.set

\* C21: a job whose clone or branch checkout failed is returned Failed, and
\* no test run, classification, fix pipeline, commit or push was or is ever
\* executed for it.
C21_CloneFailureIsFatal ==
    \A j \in JobIds :
        trace[j].raised_at \in {"clone", "checkout"} =>
            /\ Returned(j)
            /\ result[j].status = "FAILED"
            /\ trace[j].tests = 0
            /\ trace[j].classifications = 0
            /\ trace[j].fix_runs = 0
            /\ trace[j].commit_runs = 0
            /\ trace[j].pushes = 0
            /\ pc[j] = "stored" => jobs[j].status = "FAILED"

\* the checkout of the working branch failed and the job was stored
C21_Witness ==
    \E j \in JobIds :
        /\ pc[j] = "stored"
        /\ trace[j].raised_at = "checkout"
        /\ jobs[j].status = "FAILED"
        /\ jobs[j].error = "boom"

\* C22: a pre-fix test command that timed out or could not be started
\* gives a test result with passed false and at least one failure record,
\* the same iteration goes on to classification, and unless some step
\* raised the job is returned Completed.
C22_SandboxFailureIsAFailedRun ==
    \A j \in JobIds :
        (trace[j].sandbox_iter > 0 /\ ~trace[j].raised) =>
            /\ \/ /\ pc[j] = "classify"
                  /\ locals[j].iteration = trace[j].sandbox_iter
                  /\ ~locals[j].test_result.passed
                  /\ locals[j].test_result.nfail >= 1
               \/ trace[j].classifications >= trace[j].sandbox_iter
            /\ pc[j] \notin {"earlystop", "pretest"} \/ locals[j].iteration > trace[j].sandbox_iter
            /\ Returned(j) => result[j].status = "COMPLETED"

\* the test command of the second iteration timed out (or did not start),
\* the failure was classified and the job was stored as completed
C22_Witness ==
    \E j \in JobIds :
        /\ pc[j] = "stored"
        /\ trace[j].sandbox_iter = 2
        /\ trace[j].classifications = 2
        /\ jobs[j].status = "COMPLETED"

\* the candidate the heuristic gives for the failure last gone through
HeuristicCandidate ==
    IF fixlog.original = None THEN None
    ELSE heuristic_fix(fixlog.original, fixin.bug_type, fixin.error_message)

\* C23: for a failure whose file is read and attempted while the generative service
\* is absent, raises or returns nothing, the candidate is the heuristic's,
\* and the proposal is Failed when the heuristic has none either.
C23_FallsBackToHeuristic ==
    (/\ fixlog.attempted
     /\ fixlog.original # None
     /\ ~fixgen.agent \/ fixin.reply \in EmptyReplies) =>
        /\ fixlog.candidate = HeuristicCandidate
        /\ HeuristicCandidate = None => fixlog.status = "Failed"

\* C30: without a generative agent, a failure on an existing file whose
\* category is TypeMismatch, Logic or Unknown gets a Failed proposal and the
\* files are left as they were, whatever the error message.
C30_OtherCategoriesFail ==
    (/\ fixlog.attempted
     /\ ~fixgen.agent
     /\ fixin.bug_type \in {"TYPE_ERROR", "LOGIC", "UNKNOWN"}) =>
        /\ fixlog.status = "Failed"
        /\ disk = fixlog.before

TerminalStatuses == {"COMPLETED", "FAILED"}

\* C24: no step in which nothing raises changes a field of a job whose
\* status is Completed or Failed, be it the RunResult run is building or the
\* entry of the registry.
C24_TerminalJobImmutable ==
    [][\A j \in JobIds :
          ~trace'[j].raised =>
             /\ result[j].status \in TerminalStatuses => result'[j] = result[j]
             /\ (j \in DOMAIN jobs /\ jobs[j].status \in TerminalStatuses) =>
                    jobs'[j] = jobs[j]]_vars

\* the (progress, current_step) pairs a registry entry of job j is given
\* as a whole: at submission, by one progress report, or with the result
ReportPairs(j) ==
    { <<0, "Queued...">>, <<FinalProgress, "Done!">> }
        \cup { <<FinalProgress, "Failed: " \o m>> : m \in ExcMessages }
        \cup { <<PhaseReport(p, it, request[j].retry_limit).pct,
                 PhaseReport(p, it, request[j].retry_limit).step>> :
                 p \in ReportingPcs, it \in 1..request[j].retry_limit }

\* C25: whenever a poll reads the registry, the progress and the
\* current_step of an entry come from the same report, and an entry with a
\* final status is the complete result of the run.
C25_NoTornRead ==
    \A j \in DOMAIN jobs :
        /\ <<jobs[j].progress, jobs[j].current_step>> \in ReportPairs(j)
        /\ jobs[j].status \in TerminalStatuses => jobs[j] = result[j]

\* C26: the registry holds exactly the ids run_agent has handed out: an id
\* is present from its submission on, whatever the other jobs do.
C26_RegistryNeverEvicts ==
    DOMAIN jobs = { j \in JobIds : pc[j] # "idle" }

\* one job has been stored and a job submitted after it is still running
C26_Witness ==
    \E j, k \in JobIds :
        /\ j < k
        /\ pc[j] = "stored"
        /\ pc[k] \in TryPcs
        /\ sink[k] # NoStep
        /\ {j, k} \subseteq DOMAIN jobs
        /\ jobs[j].status = "COMPLETED"

\* positions after the for loop and its else clause
AfterLoopPcs == {"push", "score", "finish", "returned", "stored"}

\* the timeline holds exactly one timepoint of iteration n, and it has no
\* post-fix status
OneBareTimepoint(tl, n) ==
    /\ Cardinality({ i \in 1..Len(tl) : tl[i].iteration = n }) = 1
    /\ \A i \in 1..Len(tl) : tl[i].iteration = n => tl[i].post_status = "none"

\* C27: when the fix pipeline of iteration n returns no Fixed proposal, one
\* timepoint without post-fix status is recorded for n, there is no commit
\* and no test run after the pre-fix run of n, no further iteration starts,
\* and the final CI status is Failed.
C27_NoFixStopsTheLoop ==
    \A j \in JobIds :
        trace[j].stop = "nofix" =>
            LET n == trace[j].stop_iter IN
            /\ pc[j] \in AfterLoopPcs
            /\ trace[j].tests = 2 * n - 1
            /\ trace[j].classifications = n
            /\ trace[j].fix_runs = n
            /\ trace[j].commit_runs = n - 1
            /\ trace[j].final = "none"
            /\ pc[j] \in {"push", "score", "finish"} =>
                  /\ locals[j].iteration = n
                  /\ locals[j].ci_status_final = "FAILED"
                  /\ OneBareTimepoint(timeline[j], n)
            /\ result[j].status = "COMPLETED" =>
                  /\ result[j].summary.ci_status = "FAILED"
                  /\ OneBareTimepoint(result[j].ci_timeline, n)

\* the second iteration yielded no Fixed proposal and the job was stored
C27_Witness ==
    \E j \in JobIds :
        /\ pc[j] = "stored"
        /\ trace[j].stop = "nofix"
        /\ trace[j].stop_iter = 2
        /\ jobs[j].status = "COMPLETED"
        /\ Len(jobs[j].ci_timeline) = 2

\* C28: a loop that runs out of iterations is followed by exactly one more
\* test run, and the final CI status is Passed exactly when that run
\* passes; a loop that stops early is followed by no test run.
C28_FinalTestSettlesStatus ==
    \A j \in JobIds :
        LET n == trace[j].stop_iter
            R == request[j].retry_limit
        IN
        /\ trace[j].stop = "exhausted" =>
              /\ n = R
              /\ trace[j].final = "none" =>
                    /\ trace[j].tests = 2 * R
                    /\ pc[j] = "finaltest" \/ trace[j].raised_at = "finaltest"
                    /\ pc[j] = "finaltest" => locals[j].ci_status_final = "FAILED"
              /\ trace[j].final # "none" =>
                    /\ trace[j].tests = 2 * R + 1
                    /\ pc[j] \in AfterLoopPcs
                    /\ pc[j] \in {"push", "score", "finish"} =>
                          (locals[j].ci_status_final = "PASSED" <=> trace[j].final = "passed")
                    /\ result[j].status = "COMPLETED" =>
                          (result[j].summary.ci_status = "PASSED" <=> trace[j].final = "passed")
        /\ trace[j].stop \in {"passed", "unclassified", "nofix", "green"} =>
              /\ trace[j].final = "none"
              /\ trace[j].tests = IF trace[j].stop = "green" THEN 2 * n ELSE 2 * n - 1
        /\ trace[j].stop = "none" => trace[j].final = "none"

\* both outcomes of the final test run, each in a job stored as completed
C28_Witness ==
    \E j \in JobIds :
        /\ pc[j] = "stored"
        /\ trace[j].stop = "exhausted"
        /\ trace[j].final = "passed"
        /\ request[j].retry_limit = 2
        /\ jobs[j].status = "COMPLETED"
        /\ jobs[j].summary.ci_status = "PASSED"

\* the numbers of test runs, classifications, fix runs, commit runs and
\* recorded timepoints when the task is at position p of iteration it
StepCounts(p, it) ==
    CASE p = "pretest"   -> <<2 * it - 2, it - 1, it - 1, it - 1, it - 1>>
      [] p = "earlystop" -> <<2 * it - 1, it - 1, it - 1, it - 1, it - 1>>
      [] p = "classify"  -> <<2 * it - 1, it - 1, it - 1, it - 1, it - 1>>
      [] p = "fix"       -> <<2 * it - 1, it, it - 1, it - 1, it - 1>>
      [] p = "commit"    -> <<2 * it - 1, it, it, it - 1, it - 1>>
      [] p = "posttest"  -> <<2 * it - 1, it, it, it, it - 1>>
      [] p = "green"     -> <<2 * it, it, it, it, it>>
      [] p = "finaltest" -> <<2 * it, it, it, it, it>>

LoopPcs == {"pretest", "earlystop", "classify", "fix", "commit", "posttest",
            "green", "finaltest"}

\* C29: the steps of a job are strictly ordered: at every position of
\* iteration N the pre-fix run, classification, fix pipeline, commit and
\* post-fix run of N that precede it have been done once and the later ones
\* not yet, and iterations 1..N-1 are complete, each with its commit, its
\* post-fix run and its timepoint recorded.
C29_StepsStrictlyOrdered ==
    \A j \in JobIds :
        pc[j] \in LoopPcs =>
            LET it == locals[j].iteration IN
            /\ it \in 1..request[j].retry_limit
            /\ <<trace[j].tests, trace[j].classifications, trace[j].fix_runs,
                 trace[j].commit_runs, Len(timeline[j])>> = StepCounts(pc[j], it)
            /\ \A i \in 1..Len(timeline[j]) :
                  /\ timeline[j][i].iteration = i
                  /\ timeline[j][i].post_status # "none"

\* the post-fix run of the second iteration is about to start
C29_Witness ==
    \E j \in JobIds :
        /\ pc[j] = "posttest"
        /\ locals[j].iteration = 2
        /\ trace[j].commit_runs = 2
        /\ Len(timeline[j]) = 1

\* C31: a commit attempt that finds nothing to commit, or that fails,
\* yields no SHA and is not counted, and the loop goes on to the post-fix
\* run: at every point of a run the total of fixes applied is the number
\* of commits made so far, and it never exceeds the number of Fixed
\* proposals accumulated so far.
C31_FixesAppliedCountsCommits ==
    \A j \in JobIds :
        /\ pc[j] \in TryPcs =>
              /\ locals[j].total_fixes_applied = trace[j].commits
              /\ locals[j].total_fixes_applied <= locals[j].all_proposals.fixed
        /\ pc[j] = "posttest" =>
              /\ trace[j].stop = "none"
              /\ trace[j].commit_runs = locals[j].iteration
        /\ result[j].status = "COMPLETED" =>
              /\ result[j].summary.total_fixes = trace[j].commits
              /\ result[j].summary.total_fixes <= result[j].fixes.fixed

\* two commit runs over two Fixed proposals made one commit between them,
\* and the job went on to completion
C31_Witness ==
    \E j \in JobIds :
        /\ pc[j] = "stored"
        /\ jobs[j].status = "COMPLETED"
        /\ trace[j].commit_runs = 2
        /\ jobs[j].fixes.fixed = 2
        /\ jobs[j].summary.total_fixes = 1
        /\ trace[j].commits = 1

\* C32: a test result with passed = false carries at least one failure
\* record and the classifier returns at least as many records as the
\* result's failure list, so after a failing pre-fix run classification
\* yields at least one record and the loop is never stopped for zero
\* classified records.
C32_FailedRunIsClassified ==
    [][\A j \in JobIds :
          /\ pc[j] = "classify" =>
                /\ ~locals[j].test_result.passed
                /\ locals[j].test_result.nfail >= 1
          /\ pc[j] = "classify" /\ pc'[j] # "classify" =>
                \/ trace'[j].raised
                \/ /\ pc'[j] = "fix"
                   /\ locals'[j].classified >= locals[j].test_result.nfail
                   /\ locals'[j].classified >= 1
          /\ trace'[j].stop # "unclassified"]_vars

\* the failing pre-fix run of the second iteration has been classified
C32_Witness ==
    \E j \in JobIds :
        /\ pc[j] = "fix"
        /\ locals[j].iteration = 2
        /\ trace[j].classifications = 2
        /\ locals[j].classified >= 1

\* C33: for every run that ends Completed, the final CI status is Passed
\* exactly when the last test execution of the job reported passed, on
\* every way out of the loop.
C33_StatusIsLastTestOutcome ==
    \A j \in JobIds :
        /\ pc[j] \in {"push", "score", "finish"} =>
              /\ trace[j].last_test # "none"
              /\ locals[j].ci_status_final = "PASSED" <=> trace[j].last_test = "passed"
        /\ result[j].status = "COMPLETED" =>
              (result[j].summary.ci_status = "PASSED" <=> trace[j].last_test = "passed")
        /\ (j \in DOMAIN jobs /\ jobs[j].status = "COMPLETED") =>
              (jobs[j].summary.ci_status = "PASSED" <=> trace[j].last_test = "passed")

\* a job stored as completed whose second post-fix run passed
C33_Witness ==
    \E j \in JobIds :
        /\ pc[j] = "stored"
        /\ jobs[j].status = "COMPLETED"
        /\ trace[j].stop = "green"
        /\ trace[j].stop_iter = 2
        /\ trace[j].last_test = "passed"
        /\ jobs[j].summary.ci_status = "PASSED"

\* the last timepoint of a timeline shows a passing run
LastTimepointPassed(tl) ==
    /\ tl # << >>
    /\ \/ tl[Len(tl)].status = "PASSED"
       \/ tl[Len(tl)].post_status = "PASSED"

\* C34: the summary and the timeline of a Completed job agree: ci_status
\* is PASSED exactly when the last timepoint has status Passed or post-fix
\* status Passed, and iterations_used is the number of iterations that ran.
C34_SummaryAgreesWithTimeline ==
    \A j \in JobIds :
        result[j].status = "COMPLETED" =>
            /\ result[j].summary.ci_status = "PASSED"
                   <=> LastTimepointPassed(result[j].ci_timeline)
            /\ result[j].summary.iterations_used = trace[j].stop_iter

\* the result carries nothing but the defaults of its model class in its
\* fixes, timeline, summary and score
ReportsNothing(r) ==
    /\ r.fixes = NoProposals
    /\ r.ci_timeline = << >>
    /\ r.summary = NoSummary
    /\ r.score = ScoreBreakdown

\* C35: a run that ends with status Failed returns a job with an empty
\* fixes list, an empty timeline, an empty summary and the default score
\* breakdown, whatever was done before the exception.
C35_FailedJobReportsNothing ==
    \A j \in JobIds :
        /\ result[j].status = "FAILED" => ReportsNothing(result[j])
        /\ (j \in DOMAIN jobs /\ jobs[j].status = "FAILED") => ReportsNothing(jobs[j])

\* the numbers of iterations, test executions, classifications, fix
\* pipeline calls and commit agent calls of job j are within what its
\* retry limit allows
WithinRetryLimit(j) ==
    LET R == request[j].retry_limit IN
    /\ locals[j].iteration <= R
    /\ trace[j].stop_iter <= R
    /\ trace[j].tests <= 2 * R + 1
    /\ trace[j].classifications <= R
    /\ trace[j].fix_runs <= R
    /\ trace[j].commit_runs <= R

\* C36: every run terminates: when each external operation returns or
\* raises, a started run returns, after at most retry_limit iterations,
\* 2 * retry_limit + 1 test executions, retry_limit fix pipeline calls and
\* retry_limit commit agent calls.
C36_RunTerminatesWithinBounds ==
    /\ [](\A j \in JobIds : WithinRetryLimit(j))
    /\ \A j \in JobIds : (pc[j] = "queued") ~> Returned(j)

\* a run with retry limit 2 that used every test execution it may and returned
C36_Witness ==
    \E j \in JobIds :
        /\ Returned(j)
        /\ request[j].retry_limit = 2
        /\ trace[j].tests = 5
        /\ trace[j].fix_runs = 2
        /\ trace[j].commit_runs = 2
        /\ ~trace[j].raised

\* the fields of a registry entry other than progress and current_step
Settings(r) == [r EXCEPT !.progress = 0, !.current_step = ""]

\* C37: in the registry the status of a job changes at most once, from
\* Running to Completed or Failed, and never back; while the entry is
\* Running only its progress and its current_step change.
C37_RegistryStatusChangesOnce ==
    [][\A j \in DOMAIN jobs :
          /\ j \in DOMAIN jobs'
          /\ jobs'[j].status \in {"RUNNING"} \cup TerminalStatuses
          /\ jobs[j].status \in TerminalStatuses => jobs'[j] = jobs[j]
          /\ jobs'[j].status = "RUNNING" => Settings(jobs'[j]) = Settings(jobs[j])]_vars

\* the entry of a job that went through an iteration has got its final status
C37_Witness ==
    \E j \in DOMAIN jobs :
        /\ pc[j] = "stored"
        /\ jobs[j].status \in TerminalStatuses
        /\ trace[j].commit_runs > 0
        /\ jobs[j].progress = FinalProgress

\* what belongs to job j: the state of its task, of its orchestrator and
\* CI monitor, its result, and its registry entry if it has one
OwnState(j) ==
    <<locals[j], timeline[j], result[j], trace[j], request[j],
      IF j \in DOMAIN jobs THEN <<jobs[j]>> ELSE << >> >>

\* the timeline, the proposals and the totals job j reports are those of
\* its own iterations
ReportsOwnRun(j) ==
    /\ Len(result[j].ci_timeline)
          = trace[j].stop_iter + (IF trace[j].final = "failed" THEN 1 ELSE 0)
    /\ \A i \in 1..Len(result[j].ci_timeline) :
          result[j].ci_timeline[i].iteration \in 1..request[j].retry_limit
    /\ result[j].ci_timeline[Len(result[j].ci_timeline)].post_status
          = (IF trace[j].stop = "green" THEN "PASSED" ELSE "none")
    /\ result[j].fixes.fixed + result[j].fixes.skipped + result[j].fixes.failed
          = trace[j].fix_runs
    /\ result[j].summary.total_fixes = trace[j].commits
    /\ result[j].summary.ci_status = CIStatusOf(trace[j].last_test = "passed")

\* C38: concurrent jobs are isolated: a step of one job's task, its
\* progress reports included, leaves the orchestrator state, the timeline,
\* the result and the registry entry of every other job as they were, and
\* what a job reports at its end comes from its own iterations.
C38_JobsAreIsolated ==
    [][\A j \in JobIds :
          /\ (pc'[j] = pc[j] /\ sink'[j] = sink[j]) =>
                /\ j \in DOMAIN jobs <=> j \in DOMAIN jobs'
                /\ OwnState(j)' = OwnState(j)
          /\ result[j].status = "COMPLETED" => ReportsOwnRun(j)]_vars

\* two jobs in the middle of their iterations, one with a timepoint the
\* other does not have
C38_Witness ==
    \E j, k \in JobIds :
        /\ j # k
        /\ pc[j] = "finaltest"
        /\ Len(timeline[j]) = 1
        /\ pc[k] = "commit"
        /\ timeline[k] = << >>
        /\ sink[k] # NoStep

\* the proposals with status Fixed that name file f
FixedFor(f) ==
    { i \in DOMAIN fixgen.proposals :
        fixgen.proposals[i].file = f /\ fixgen.proposals[i].status = "Fixed" }

\* C39: within one call of FixGeneratorAgent.run at most one proposal
\* with status Fixed is produced per file, and a file that is written
\* still has the content it had when the call began: no fix written
\* earlier in the call is overwritten.
C39_OneFixPerFile ==
    /\ \A f \in Files : Cardinality(FixedFor(f)) <= 1
    /\ (fixlog.attempted /\ fixlog.status = "Fixed") =>
          fixlog.before[RealFile(fixlog.file)] = fixlog.disk0[RealFile(fixlog.file)]

====
